---- MODULE Spec2Model ----
(***************************************************************************)
(* Model of the data-acquisition layer of medical-mcp (utils.ts, listed in *)
(* README.md) and of the tool handlers of index.ts that call it.           *)
(*                                                                         *)
(* Every acquisition call is an async function: each `await` is a point    *)
(* where the call is suspended, so each action below runs one call from    *)
(* one suspension point to the next.  What a remote source, the browser or *)
(* a timer answers is an input drawn from a small set.                     *)
(***************************************************************************)
EXTENDS Integers, Sequences, FiniteSets, TLC

(***************************************************************************)
(* Bounds of the model.                                                    *)
(***************************************************************************)
MaxRetriesBound == 4
MaxBlocks == 2
MaxSections == 2
MaxContainers == 2

Calls == {1, 2}

(***************************************************************************)
(* Program constants.                                                      *)
(***************************************************************************)
DefaultMaxRetries == 3
DefaultBaseDelay == 1000
DefaultLimit == 10
MinDelay == 1000
MaxDelay == 3000

FDA_LABEL_URL == "FDA_API_BASE/drug/label.json"
FDA_EVENT_URL == "FDA_API_BASE/drug/event.json"
PUBMED_ESEARCH_URL == "PUBMED_API_BASE/esearch.fcgi"
PUBMED_EFETCH_URL == "PUBMED_API_BASE/efetch.fcgi"
WORLD_BANK_URL == "WORLD_BANK_API_BASE/country/"
RXNAV_DRUGS_URL == "RXNAV_API_BASE/drugs.json"
GOOGLE_SCHOLAR_URL == "GOOGLE_SCHOLAR_API_BASE?q=&hl=en"

SearchFields ==
  {"brand_name", "generic_name", "active_ingredient", "substance_name",
   "manufacturer_name", "drug_interactions", "indications_and_usage",
   "route", "dosage_form"}

NoField == "undefined"

(***************************************************************************)
(* Inputs.                                                                 *)
(***************************************************************************)
Queries == {"aspirin", "warfarin"}
Limits == {DefaultLimit, 5}
BaseDelays == {DefaultBaseDelay, 250}

\* Indicator names given to getHealthIndicators, and the optional country
\* ("" when the argument is omitted).
IndicatorNames ==
  {"Life Expectancy", "infant mortality rate", "birth rate and death rate",
   "Death rate, then birth rate", "SP.POP.TOTL", "sp.pop.totl", "SH.XPD.CHEX.GD",
   "SH.XPD.CHEX.GD.ZS", "S.POP.TOTL", "diabetes"}
Countries == {"", "US"}

\* HTTP status of a failed request; 0 stands for an error object without a
\* status property (network error, timeout, TypeError).
Statuses == {0, 304, 400, 404, 429, 499, 500, 503}

StatusText(s) ==
  CASE s = 0 -> "Network Error"
    [] s = 304 -> "Not Modified"
    [] s = 400 -> "Bad Request"
    [] s = 404 -> "Not Found"
    [] s = 429 -> "Too Many Requests"
    [] s = 499 -> "Client Closed Request"
    [] s = 500 -> "Internal Server Error"
    [] s = 503 -> "Service Unavailable"
    [] OTHER -> "Error"

\* An error object.  `id` is the object's identity: the number of the
\* request of the call that threw it (two errors of one call never share it).
Error(s, n) == [status |-> s, message |-> StatusText(s), id |-> n]

Undefined == [status |-> 0, message |-> "undefined", id |-> 0]

\* What `res.body.results` holds in a successful response: a list of
\* records, or nothing at all (then `|| []` applies).
NoResults == <<"undefined">>
ResultLists == {NoResults, <<>>, <<"rec1">>, <<"rec1", "rec2">>}

OrEmpty(results) == IF results = NoResults THEN <<>> ELSE results

\* Outcome of one remote request.
Outcomes ==
  [ok : {TRUE}, results : ResultLists, status : {0}]
    \cup [ok : {FALSE}, results : {<<>>}, status : Statuses]

\* The outcomes drawn when several calls run at once.
ConcurrentOutcomes ==
  {[ok |-> TRUE, results |-> <<"rec1">>, status |-> 0],
   [ok |-> FALSE, results |-> <<>>, status |-> 404],
   [ok |-> FALSE, results |-> <<>>, status |-> 500]}

(***************************************************************************)
(* Results of a call.                                                      *)
(***************************************************************************)
Pending == [kind |-> "pending", type |-> "none", value |-> <<>>, error |-> Undefined]
Return(v) == [kind |-> "return", type |-> "array", value |-> v, error |-> Undefined]
ReturnNull == [kind |-> "return", type |-> "null", value |-> <<>>, error |-> Undefined]
ReturnObject(v) == [kind |-> "return", type |-> "object", value |-> <<v>>, error |-> Undefined]
Raise(e) == [kind |-> "raise", type |-> "none", value |-> <<>>, error |-> e]

VARIABLES
  active,      \* the calls that are made in this run
  fn,          \* fn[c]: the function call c invokes
  pc,          \* pc[c]: the suspension point call c is at
  args,        \* args[c]: the arguments of call c
  result,      \* result[c]: what call c returned or raised
  requests,    \* requests[c]: the remote requests call c issued, in order
  attempt,     \* retryFDAApiCall: the loop variable `attempt`
  lastError,   \* retryFDAApiCall: the variable `lastError`
  outcomes,    \* outcomes[c]: the outcome of each request of call c, in order
  waits,       \* retryFDAApiCall: the delays handed to setTimeout, in order
  retryResult, \* retryFDAApiCall: what it returned or raised to its caller
  browser,     \* searchGoogleScholar: the variable `browser` and the state of its process
  closes,      \* searchGoogleScholar: the number of calls of browser.close()
  steps,       \* searchGoogleScholar: the session steps started, in order
  completion,  \* searchGoogleScholar: what try / catch completed with, kept over `finally`
  caught,      \* searchGoogleScholar: the error the catch block received
  fallback,    \* searchGoogleScholar: what page.$(".gs_r") resolved with
  page,        \* searchGoogleScholar: the containers page.evaluate() iterated over
  document,    \* searchGoogleScholar: the results of the page page.evaluate() ran in
  timer,       \* searchGoogleScholar: the delay randomDelay() handed to setTimeout
  response,    \* response[c]: what the tool handler that made call c answered
  handle,      \* searchGoogleScholar: the process the variable `browser` refers to
  processes    \* the browser processes puppeteer.launch() started, in order

retryVars == <<attempt, lastError, waits, retryResult>>
scholarVars ==
  <<browser, closes, steps, completion, caught, fallback, page, document, timer, handle,
    processes>>
\* What no function of the acquisition layer writes.
callVars == <<active, fn, args, response>>
vars == <<active, fn, pc, args, result, response, requests, outcomes, attempt, lastError, waits,
          retryResult,
          browser, closes, steps, completion, caught, fallback, page, document, timer,
          handle, processes>>

(***************************************************************************)
(* Arguments of a call.  Every call carries the same record; a function    *)
(* reads the fields that are its parameters.                               *)
(***************************************************************************)
Args(qs, ls, fs, ms, ds) ==
  [query : qs, limit : ls, searchField : fs, maxRetries : ms, baseDelay : ds,
   country : {""}]

NoArgs ==
  [query |-> "", limit |-> DefaultLimit, searchField |-> NoField,
   maxRetries |-> DefaultMaxRetries, baseDelay |-> DefaultBaseDelay, country |-> ""]

\* retryFDAApiCall is module-private: searchDrugs and searchAdverseEvents call
\* it with its defaults; a direct call may pass any maxRetries / baseDelay.
ArgsOf(f) ==
  CASE f = "retryFDAApiCall" ->
         Args({""}, {DefaultLimit}, {NoField}, 0..MaxRetriesBound, BaseDelays)
    [] f = "searchDrugs" ->
         Args(Queries, Limits, SearchFields \cup {NoField},
              {DefaultMaxRetries}, {DefaultBaseDelay})
    [] f = "searchAdverseEvents" ->
         Args(Queries, Limits, {"reactionmeddrapt", "medicinalproduct"},
              {DefaultMaxRetries}, {DefaultBaseDelay})
    [] f = "getHealthIndicators" ->
         [query : IndicatorNames, limit : {DefaultLimit}, searchField : {NoField},
          maxRetries : {DefaultMaxRetries}, baseDelay : {DefaultBaseDelay},
          country : Countries]
    [] f = "searchGoogleScholar" ->
         Args(Queries, {DefaultLimit}, {NoField}, {DefaultMaxRetries}, {DefaultBaseDelay})
    [] f = "getSeriousAdverseEvents" ->
         Args(Queries \cup {""}, Limits, {NoField},
              {DefaultMaxRetries}, {DefaultBaseDelay})
    [] OTHER ->
         Args(Queries, Limits, {NoField}, {DefaultMaxRetries}, {DefaultBaseDelay})

\* A variant in which one more function hands its request to retryFDAApiCall.
RetryWrapped_more == {"searchDrugs", "searchAdverseEvents", "searchAdverseEventsByDrug"}

\* The functions that hand their request to retryFDAApiCall.
RetryWrapped == {"searchDrugs", "searchAdverseEvents"}

\* The functions that are one request and the handling of its response.
SingleRequest ==
  {"searchDrugsByActiveIngredient", "searchDrugInteractions", "getDrugByNDC",
   "searchRxNormDrugs", "searchAdverseEventsByDrug",
   "searchAdverseEventsByReaction", "getSeriousAdverseEvents"}

Functions ==
  {"retryFDAApiCall", "searchGoogleScholar", "searchPubMedArticles",
   "getHealthIndicators"} \cup RetryWrapped \cup SingleRequest

\* A remote request: the URL and the query parameters that vary.
Req(url, search, limit) == [url |-> url, search |-> search, limit |-> limit]

(***************************************************************************)
(* retryFDAApiCall                                                         *)
(***************************************************************************)
\* A variant that takes an error without status for one with a status.
HasStatus_always(e) == TRUE

\* `error.status &&`: an error without status (a network error, a timeout)
\* has status undefined, 0 in this model.
HasStatus(e) == e.status # 0

\* A variant that does not exempt status 429.
IsRateLimit_never(e) == FALSE

\* `error.status !== 429`, negated
IsRateLimit(e) == e.status = 429

\* A variant that takes only status 400 for a client error.
IsClientError_only400(e) == e.status = 400

\* `error.status && error.status < 500 && error.status !== 429`
IsClientError(e) == HasStatus(e) /\ e.status < 500 /\ ~IsRateLimit(e)

\* A variant whose delay grows linearly.
BackoffDelay_linear(baseDelay, k) == baseDelay * k

\* `baseDelay * Math.pow(2, attempt - 1)`
BackoffDelay(baseDelay, k) == baseDelay * 2^(k - 1)

\* The search expression searchDrugs builds from its arguments.
BuildSearchQuery(query, searchField) ==
  CASE searchField = "brand_name" -> "openfda.brand_name:" \o query
    [] searchField = "generic_name" -> "openfda.generic_name:" \o query
    [] searchField \in {"active_ingredient", "substance_name"} ->
         "openfda.substance_name:" \o query
    [] searchField = "manufacturer_name" -> "openfda.manufacturer_name:" \o query
    [] searchField = "drug_interactions" -> "drug_interactions:" \o query
    [] searchField = "indications_and_usage" -> "indications_and_usage:" \o query
    [] searchField = "route" -> "openfda.route:" \o query
    [] searchField = "dosage_form" -> "openfda.dosage_form:" \o query
    [] OTHER -> query

\* A variant that reports a retry only when more than one attempt was made.
ContextualError_whenRetried(a, error) ==
  [message |-> "FDA API Error: " \o error.message,
   originalError |-> error,
   context |-> [query |-> a.query,
                searchField |-> a.searchField,
                searchQuery |-> BuildSearchQuery(a.query, a.searchField),
                limit |-> a.limit,
                apiUrl |-> FDA_LABEL_URL,
                retryAttempted |-> error.id > 1]]

\* `contextualError`: the error searchDrugs throws, built in its catch.
ContextualError(a, error) ==
  [message |-> "FDA API Error: " \o error.message,
   originalError |-> error,
   context |-> [query |-> a.query,
                searchField |-> a.searchField,
                searchQuery |-> BuildSearchQuery(a.query, a.searchField),
                limit |-> a.limit,
                apiUrl |-> FDA_LABEL_URL,
                retryAttempted |-> TRUE]]

\* A variant that absorbs the failure as the sibling functions do.
searchDrugsSettle_swallow(a, r) ==
  IF r.kind = "return" THEN r ELSE Return(<<>>)

\* try { return await retryFDAApiCall(...) } catch (error) { throw contextualError }
searchDrugsSettle(a, r) ==
  IF r.kind = "return" THEN r ELSE Raise(ContextualError(a, r.error))

\* try { return await retryFDAApiCall(...) } catch (error) { return [] }
searchAdverseEventsSettle(r) ==
  IF r.kind = "return" THEN r ELSE Return(<<>>)

\* The search expression searchAdverseEvents builds from its arguments.
BuildEventQuery(query, searchField) ==
  IF searchField = "medicinalproduct"
    THEN "patient.drug.medicinalproduct:" \o query
    ELSE ("patient.reaction." \o searchField) \o (":" \o query)

\* The request the apiCall closure of function f issues.
ApiRequest(f, a) ==
  CASE f = "searchDrugs" ->
         Req(FDA_LABEL_URL, BuildSearchQuery(a.query, a.searchField), a.limit)
    [] f = "searchAdverseEvents" ->
         Req(FDA_EVENT_URL, BuildEventQuery(a.query, a.searchField), a.limit)
    [] OTHER -> Req("apiCall", "", 0)

\* retryFDAApiCall is over with r, and with it call c: r goes through the
\* try / catch of the caller.
Settle(c, r) ==
  /\ pc' = [pc EXCEPT ![c] = "done"]
  /\ retryResult' = [retryResult EXCEPT ![c] = r]
  /\ result' = [result EXCEPT ![c] =
       CASE fn[c] = "searchDrugs" -> searchDrugsSettle(args[c], r)
         [] fn[c] = "searchAdverseEvents" -> searchAdverseEventsSettle(r)
         [] OTHER -> r]

\* A variant whose loop stops one turn early.
LoopContinues_strict(k, maxRetries) == k < maxRetries

\* `attempt <= maxRetries`
LoopContinues(k, maxRetries) == k <= maxRetries

\* The loop test `attempt <= maxRetries` followed by `await apiCall()`, or
\* by the `throw lastError` behind the loop.
LoopHead(c, k, le) ==
  IF LoopContinues(k, args[c].maxRetries)
    THEN /\ requests' = [requests EXCEPT ![c] = Append(@, ApiRequest(fn[c], args[c]))]
         /\ pc' = [pc EXCEPT ![c] = "await_apiCall"]
         /\ UNCHANGED <<result, retryResult>>
    ELSE /\ Settle(c, Raise(le))
         /\ UNCHANGED requests

ServedOutcomes == IF Cardinality(active) = 1 THEN Outcomes ELSE ConcurrentOutcomes

\* A variant in which `attempt` and `lastError` are shared by all the calls.
RetryFrame_shared(c) == 1

\* `attempt` and `lastError` are locals of retryFDAApiCall: each call has
\* its own.
RetryFrame(c) == c

\* Entry of retryFDAApiCall: `let lastError; for (let attempt = 1; ...`
retryFDAApiCall(c) ==
  /\ pc[c] = "start"
  /\ fn[c] \in {"retryFDAApiCall"} \cup RetryWrapped
  /\ attempt' = [attempt EXCEPT ![RetryFrame(c)] = 1]
  /\ LoopHead(c, 1, lastError[RetryFrame(c)])
  /\ UNCHANGED <<callVars, lastError, outcomes, waits, scholarVars>>

\* A variant that gives up one attempt early.
IsLastAttempt_early(k, maxRetries) == k >= maxRetries - 1

\* `attempt === maxRetries`
IsLastAttempt(k, maxRetries) == k = maxRetries

\* A variant that throws the first error caught.
Rethrown_stale(error, previous) == IF previous = Undefined THEN error ELSE previous

\* The error the catch block throws: `throw error`, the one just caught,
\* whatever lastError held before.
Rethrown(error, previous) == error

\* A variant that keeps looping after a success that is not the last attempt.
AttemptVerdict_noReturn(ok, error, k, maxRetries) ==
  IF k = maxRetries /\ ok THEN "return"
  ELSE IF ok THEN "wait"
  ELSE IF error.status # 0 /\ error.status < 500 /\ error.status # 429 THEN "throw"
  ELSE IF k = maxRetries THEN "throw"
  ELSE "wait"

\* What the loop body does with the outcome of attempt k.
AttemptVerdict(ok, error, k, maxRetries) ==
  IF ok THEN "return"
  ELSE IF IsClientError(error) THEN "throw"
  ELSE IF IsLastAttempt(k, maxRetries) THEN "throw"
  ELSE "wait"

\* The awaited apiCall() settles: the try / catch of the loop body.
apiCallSettled(c) ==
  /\ pc[c] = "await_apiCall"
  /\ \E o \in ServedOutcomes :
       LET error == Error(o.status, Len(outcomes[c]) + 1)
           verdict == AttemptVerdict(o.ok, error, attempt[RetryFrame(c)],
                                     args[c].maxRetries) IN
       /\ outcomes' = [outcomes EXCEPT ![c] = Append(@, o)]
       /\ lastError' = [lastError EXCEPT ![RetryFrame(c)] = IF o.ok THEN @ ELSE error]
       /\ CASE verdict = "return" ->
                 /\ Settle(c, Return(OrEmpty(o.results)))
                 /\ UNCHANGED waits
            [] verdict = "throw" ->
                 /\ Settle(c, Raise(Rethrown(error, lastError[RetryFrame(c)])))
                 /\ UNCHANGED waits
            [] verdict = "wait" ->
                 /\ waits' = [waits EXCEPT ![c] =
                       Append(@, BackoffDelay(args[c].baseDelay, attempt[RetryFrame(c)]))]
                 /\ pc' = [pc EXCEPT ![c] = "await_backoff"]
                 /\ UNCHANGED <<result, retryResult>>
  /\ UNCHANGED <<callVars, requests, attempt, scholarVars>>

\* The backoff timer fires: `attempt++` and the next turn of the loop.
backoffElapsed(c) ==
  /\ pc[c] = "await_backoff"
  /\ attempt' = [attempt EXCEPT ![RetryFrame(c)] = @ + 1]
  /\ LoopHead(c, attempt[RetryFrame(c)] + 1, lastError[RetryFrame(c)])
  /\ UNCHANGED <<callVars, lastError, outcomes, waits, scholarVars>>

(***************************************************************************)
(* The functions that issue one request outside retryFDAApiCall.           *)
(***************************************************************************)
searchDrugsByActiveIngredientSettle(o) ==
  IF o.ok THEN Return(OrEmpty(o.results)) ELSE Return(<<>>)

\* No try / catch: the error of the request leaves the function.
searchDrugInteractionsSettle(o, n) ==
  IF o.ok THEN Return(OrEmpty(o.results)) ELSE Raise(Error(o.status, n))

\* `res.body.results?.[0] || null`, and null from the catch block.
getDrugByNDCSettle(o) ==
  IF o.ok /\ OrEmpty(o.results) # <<>>
    THEN ReturnObject(Head(OrEmpty(o.results)))
    ELSE ReturnNull

searchRxNormDrugsSettle(o) ==
  IF o.ok THEN Return(OrEmpty(o.results)) ELSE Return(<<>>)

searchAdverseEventsByDrugSettle(o) ==
  IF o.ok THEN Return(OrEmpty(o.results)) ELSE Return(<<>>)

searchAdverseEventsByReactionSettle(o) ==
  IF o.ok THEN Return(OrEmpty(o.results)) ELSE Return(<<>>)

getSeriousAdverseEventsSettle(o) ==
  IF o.ok THEN Return(OrEmpty(o.results)) ELSE Return(<<>>)

\* The request function f builds from its arguments.
RequestOf(f, a) ==
  CASE f = "searchDrugsByActiveIngredient" ->
         Req(FDA_LABEL_URL, "openfda.substance_name:" \o a.query, a.limit)
    [] f = "searchDrugInteractions" ->
         Req(FDA_LABEL_URL, "drug_interactions:" \o a.query, a.limit)
    [] f = "getDrugByNDC" ->
         Req(FDA_LABEL_URL, "openfda.product_ndc:" \o a.query, 1)
    [] f = "searchRxNormDrugs" ->
         Req(RXNAV_DRUGS_URL, a.query, 0)
    [] f = "searchAdverseEventsByDrug" ->
         Req(FDA_EVENT_URL, "patient.drug.medicinalproduct:" \o a.query, a.limit)
    [] f = "searchAdverseEventsByReaction" ->
         Req(FDA_EVENT_URL, "patient.reaction.reactionmeddrapt:" \o a.query, a.limit)
    [] f = "getSeriousAdverseEvents" ->
         Req(FDA_EVENT_URL,
             IF a.query # ""
               THEN "serious:1+AND+patient.drug.medicinalproduct:" \o a.query
               ELSE "serious:1",
             a.limit)

\* What function f makes of the outcome o of its n-th request.
ResponseOf(f, o, n) ==
  CASE f = "searchDrugsByActiveIngredient" -> searchDrugsByActiveIngredientSettle(o)
    [] f = "searchDrugInteractions" -> searchDrugInteractionsSettle(o, n)
    [] f = "getDrugByNDC" -> getDrugByNDCSettle(o)
    [] f = "searchRxNormDrugs" -> searchRxNormDrugsSettle(o)
    [] f = "searchAdverseEventsByDrug" -> searchAdverseEventsByDrugSettle(o)
    [] f = "searchAdverseEventsByReaction" -> searchAdverseEventsByReactionSettle(o)
    [] f = "getSeriousAdverseEvents" -> getSeriousAdverseEventsSettle(o)

\* Entry of a single-request function, up to its `await superagent.get(...)`.
sendRequest(c) ==
  /\ pc[c] = "start"
  /\ fn[c] \in SingleRequest
  /\ requests' = [requests EXCEPT ![c] = Append(@, RequestOf(fn[c], args[c]))]
  /\ pc' = [pc EXCEPT ![c] = "await_response"]
  /\ UNCHANGED <<callVars, result, outcomes, retryVars, scholarVars>>

\* The awaited request settles: the rest of the function body.
responseSettled(c) ==
  /\ pc[c] = "await_response"
  /\ fn[c] \in SingleRequest
  /\ \E o \in Outcomes :
       /\ outcomes' = [outcomes EXCEPT ![c] = Append(@, o)]
       /\ result' = [result EXCEPT ![c] = ResponseOf(fn[c], o, Len(requests[c]))]
  /\ pc' = [pc EXCEPT ![c] = "done"]
  /\ UNCHANGED <<callVars, requests, retryVars, scholarVars>>

(***************************************************************************)
(* Strings: what the String methods the code calls do.                     *)
(***************************************************************************)
IsSpace(ch) == ch \in {" ", "\n", "\t"}

RECURSIVE TrimStart(_)
TrimStart(s) ==
  IF Len(s) > 0 /\ IsSpace(SubSeq(s, 1, 1)) THEN TrimStart(SubSeq(s, 2, Len(s))) ELSE s

RECURSIVE TrimEnd(_)
TrimEnd(s) ==
  IF Len(s) > 0 /\ IsSpace(SubSeq(s, Len(s), Len(s)))
    THEN TrimEnd(SubSeq(s, 1, Len(s) - 1))
    ELSE s

\* String.prototype.trim
Trim(s) == TrimEnd(TrimStart(s))

\* The first index from `from` on at which pat occurs in s, 0 when it does not.
RECURSIVE IndexOf(_, _, _)
IndexOf(s, pat, from) ==
  IF from + Len(pat) - 1 > Len(s) THEN 0
  ELSE IF SubSeq(s, from, from + Len(pat) - 1) = pat THEN from
  ELSE IndexOf(s, pat, from + 1)

\* Array.prototype.join
RECURSIVE JoinWith(_, _)
JoinWith(parts, sep) ==
  IF Len(parts) = 0 THEN ""
  ELSE IF Len(parts) = 1 THEN parts[1]
  ELSE (parts[1] \o sep) \o JoinWith(Tail(parts), sep)

\* The sequences over S of length at most n.
RECURSIVE SeqsUpTo(_, _)
SeqsUpTo(n, S) ==
  IF n = 0 THEN {<<>>}
  ELSE LET shorter == SeqsUpTo(n - 1, S) IN
       shorter \cup {Append(q, x) : q \in shorter, x \in S}

IsDigit(ch) == ch \in {"0", "1", "2", "3", "4", "5", "6", "7", "8", "9"}

UpperCase == "ABCDEFGHIJKLMNOPQRSTUVWXYZ"

LowerCase == "abcdefghijklmnopqrstuvwxyz"

IsUpper(ch) == IndexOf(UpperCase, ch, 1) # 0

ToLowerChar(ch) ==
  LET i == IndexOf(UpperCase, ch, 1) IN
  IF i = 0 THEN ch ELSE SubSeq(LowerCase, i, i)

\* String.prototype.toLowerCase
ToLowerCase(s) == JoinWith([i \in 1..Len(s) |-> ToLowerChar(SubSeq(s, i, i))], "")

\* The pieces of s between its dots.
RECURSIVE SplitDots(_)
SplitDots(s) ==
  LET i == IndexOf(s, ".", 1) IN
  IF i = 0 THEN <<s>>
  ELSE <<SubSeq(s, 1, i - 1)>> \o SplitDots(SubSeq(s, i + 1, Len(s)))

\* [A-Z]{lo,hi} over the whole of s
UpperRun(s, lo, hi) ==
  /\ Len(s) >= lo /\ Len(s) <= hi
  /\ \A i \in 1..Len(s) : IsUpper(SubSeq(s, i, i))

\* [A-Z0-9]{lo,hi} over the whole of s
UpperOrDigitRun(s, lo, hi) ==
  /\ Len(s) >= lo /\ Len(s) <= hi
  /\ \A i \in 1..Len(s) : IsUpper(SubSeq(s, i, i)) \/ IsDigit(SubSeq(s, i, i))

(***************************************************************************)
(* getHealthIndicators                                                     *)
(***************************************************************************)
\* healthIndicatorMap, in the order of its entries.
healthIndicatorMap ==
  << [keyword |-> "life expectancy", code |-> "SP.DYN.LE00.IN"],
     [keyword |-> "mortality rate", code |-> "SP.DYN.IMRT.IN"],
     [keyword |-> "infant mortality", code |-> "SP.DYN.IMRT.IN"],
     [keyword |-> "birth rate", code |-> "SP.DYN.CBRT.IN"],
     [keyword |-> "death rate", code |-> "SP.DYN.CDRT.IN"],
     [keyword |-> "population growth", code |-> "SP.POP.GROW"] >>

\* `indicatorName.toLowerCase().includes(keyword)`
Includes(name, keyword) == IndexOf(ToLowerCase(name), keyword, 1) # 0

\* `indicatorName.match(/^[A-Z]{2}\.[A-Z]{2,4}\.[A-Z0-9]{2,8}(\.[A-Z0-9]{2})?$/)`:
\* none of the classes holds a dot, so the dots of the name are those of
\* the pattern.
MatchesCodePattern(name) ==
  LET parts == SplitDots(name) IN
  /\ Len(parts) \in {3, 4}
  /\ UpperRun(parts[1], 2, 2)
  /\ UpperRun(parts[2], 2, 4)
  /\ UpperOrDigitRun(parts[3], 2, 8)
  /\ Len(parts) = 4 => UpperOrDigitRun(parts[4], 2, 2)

\* A variant in which the last matching entry of the table wins.
IndicatorCode_lastHit(name) ==
  LET hits == {i \in 1..Len(healthIndicatorMap) : Includes(name, healthIndicatorMap[i].keyword)} IN
  IF hits # {}
    THEN healthIndicatorMap[CHOOSE i \in hits : \A j \in hits : j <= i].code
    ELSE IF MatchesCodePattern(name) THEN name ELSE ""

\* The code the name resolves to, "" when it resolves to none.
IndicatorCode(name) ==
  LET hits == {i \in 1..Len(healthIndicatorMap) : Includes(name, healthIndicatorMap[i].keyword)} IN
  IF hits # {}
    THEN healthIndicatorMap[CHOOSE i \in hits : \A j \in hits : i <= j].code
    ELSE IF MatchesCodePattern(name) THEN name ELSE ""

\* A point of the response: `value` is <<>> for null and <<v>> for a number.
WorldBankItems ==
  {[date |-> "2020", value |-> <<>>], [date |-> "2021", value |-> <<71>>],
   [date |-> "2022", value |-> <<0>>]}

WorldBankData ==
  {<<>>} \cup {<<i>> : i \in WorldBankItems}
    \cup {<<i, j>> : i \in WorldBankItems, j \in WorldBankItems}

\* res.body: not an array, or an array of `length` elements whose second
\* element is `data` (`hasData` FALSE when that element is null).
WorldBankBodies ==
  {[isArray |-> FALSE, length |-> 0, hasData |-> FALSE, data |-> <<>>],
   [isArray |-> TRUE, length |-> 1, hasData |-> FALSE, data |-> <<>>],
   [isArray |-> TRUE, length |-> 2, hasData |-> FALSE, data |-> <<>>]}
    \cup {[isArray |-> TRUE, length |-> 2, hasData |-> TRUE, data |-> d] : d \in WorldBankData}

WorldBankOutcomes ==
  [ok : {TRUE}, body : WorldBankBodies, status : {0}]
    \cup [ok : {FALSE},
          body : {[isArray |-> FALSE, length |-> 0, hasData |-> FALSE, data |-> <<>>]},
          status : Statuses]

\* A variant that filters on the truthiness of the value.
NonNull_truthy(item) == item.value # <<>> /\ item.value # <<0>>

\* `.filter(item => item.value !== null)`
NonNull(item) == item.value # <<>>

\* `.map(item => ({...}))`
HealthIndicator(item) ==
  [year |-> item.date, value |-> item.value[1], source |-> "World Bank"]

MapSeq(s, Op(_)) == [i \in 1..Len(s) |-> Op(s[i])]

\* The body of the function behind the request.
getHealthIndicatorsSettle(o) ==
  IF ~o.ok THEN Return(<<>>)
  ELSE IF ~o.body.isArray \/ o.body.length < 2 THEN Return(<<>>)
  ELSE LET data == IF o.body.hasData THEN o.body.data ELSE <<>> IN
       Return(MapSeq(SelectSeq(data, NonNull), HealthIndicator))

\* Entry: the name is resolved; without a code the call returns [] at once,
\* with one it requests the indicator.
getHealthIndicators(c) ==
  /\ pc[c] = "start"
  /\ fn[c] = "getHealthIndicators"
  /\ LET code == IndicatorCode(args[c].query)
         countryCode == IF args[c].country # "" THEN args[c].country ELSE "all" IN
     IF code = ""
       THEN /\ pc' = [pc EXCEPT ![c] = "done"]
            /\ result' = [result EXCEPT ![c] = Return(<<>>)]
            /\ UNCHANGED requests
       ELSE /\ requests' = [requests EXCEPT ![c] =
                  Append(@, Req(WORLD_BANK_URL, (countryCode \o "/indicator/") \o code, 50))]
            /\ pc' = [pc EXCEPT ![c] = "await_indicator"]
            /\ UNCHANGED result
  /\ UNCHANGED <<callVars, outcomes, retryVars, scholarVars>>

indicatorSettled(c) ==
  /\ pc[c] = "await_indicator"
  /\ \E o \in WorldBankOutcomes :
       /\ outcomes' = [outcomes EXCEPT ![c] = Append(@, o)]
       /\ result' = [result EXCEPT ![c] = getHealthIndicatorsSettle(o)]
  /\ pc' = [pc EXCEPT ![c] = "done"]
  /\ UNCHANGED <<callVars, requests, retryVars, scholarVars>>

(***************************************************************************)
(* searchPubMedArticles                                                    *)
(***************************************************************************)
\* `esearchresult?.idlist` of the phase-1 response (NoResults when absent).
IdLists == {NoResults, <<>>, <<"101">>, <<"101", "102">>}

(***************************************************************************)
(* The phase-2 text of searchPubMedArticles.                               *)
(***************************************************************************)
\* An <AbstractText> element: its Label attribute ("" when it has none) and
\* its content.
LabelledA == [label |-> "BACKGROUND", text |-> "text1"]
LabelledB == [label |-> "RESULTS", text |-> "\n  text2 "]
Unlabelled == [label |-> "", text |-> "plain text"]
Blank == [label |-> "", text |-> " "]
Quoting == [label |-> "", text |-> "the Label=\"x\" attribute"]

Sections == {LabelledA, LabelledB, Unlabelled, Blank, Quoting}

\* The markup of the element, as the global match of
\* /<AbstractText[^>]*>([\s\S]*?)<\/AbstractText>/g returns it.
SectionMarkup(sec) ==
  (("<AbstractText" \o (IF sec.label # "" THEN (" Label=\"" \o sec.label) \o "\"" ELSE ""))
     \o ">") \o (sec.text \o "</AbstractText>")

\* An <Author> element: <LastName> and <ForeName>, "" when the marker is absent.
AuthorBlocks ==
  {[last |-> "Smith", fore |-> "Jane"], [last |-> "Consortium", fore |-> ""],
   [last |-> "", fore |-> ""]}

\* A <PubDate> element: <Year> and <Month>, "" when the marker is absent.
PubDates ==
  {[present |-> FALSE, year |-> "", month |-> ""],
   [present |-> TRUE, year |-> "", month |-> "Mar"],
   [present |-> TRUE, year |-> "2021", month |-> ""],
   [present |-> TRUE, year |-> "2021", month |-> "Mar"]}

\* A <PubmedArticle> block of the phase-2 text: what its <PMID> and
\* <ArticleTitle> markers hold, "" when the marker does not match.
Block(pmid, title, sections, authors, journal, pubDate) ==
  [pmid |-> pmid, title |-> title, sections |-> sections, authors |-> authors,
   journal |-> journal, pubDate |-> pubDate]

NoPubDate == [present |-> FALSE, year |-> "", month |-> ""]

\* Blocks that differ in their identifier and title markers.
PubmedBlocks ==
  {Block(p, t, <<>>, <<>>, "", NoPubDate) : p \in {"", "101", "102"}, t \in {"", "Title A"}}

\* Blocks that differ in their abstract sections.
AbstractBlocks ==
  {Block("103", "Title B", secs, <<>>, "", NoPubDate) : secs \in SeqsUpTo(MaxSections, Sections)}

\* Blocks that differ in authors, journal and publication date.
DetailBlocks ==
  {Block("104", "Title C", <<>>, as, j, d) :
     as \in {<<>>} \cup {<<a, b>> : a \in AuthorBlocks, b \in AuthorBlocks},
     j \in {"", "The Journal"}, d \in PubDates}

\* fetchRes.text as its sequence of blocks.
XmlTexts ==
  SeqsUpTo(MaxBlocks, PubmedBlocks)
    \cup {<<b>> : b \in AbstractBlocks \cup DetailBlocks}
    \cup {<<a, b>> : a \in PubmedBlocks, b \in {Block("103", "Title B", <<LabelledA, LabelledB>>,
                                                      <<>>, "", NoPubDate)}}

RECURSIVE Join(_)
Join(ids) ==
  IF Len(ids) = 0 THEN ""
  ELSE IF Len(ids) = 1 THEN ids[1]
  ELSE (ids[1] \o ",") \o Join(Tail(ids))

\* A variant that keeps a block that has one of the two markers.
WellFormed_either(block) == block.pmid # "" \/ block.title # ""

\* `if (pmid && title)`
WellFormed(block) == block.pmid # "" /\ block.title # ""

\* `match.match(/Label="([^"]*?)"/)`: the first Label="..." of the element.
LabelOf(markup) ==
  LET i == IndexOf(markup, "Label=\"", 1)
      j == IF i = 0 THEN 0 ELSE IndexOf(markup, "\"", i + 7) IN
  IF j = 0 THEN "" ELSE SubSeq(markup, i + 7, j - 1)

\* `match.match(/<AbstractText[^>]*>([\s\S]*?)<\/AbstractText>/)`, group 1.
TextOf(markup) ==
  LET g == IndexOf(markup, ">", 1)
      e == IndexOf(markup, "</AbstractText>", g + 1) IN
  SubSeq(markup, g + 1, e - 1)

\* One element of abstractParts.
RenderSection(sec) ==
  LET markup == SectionMarkup(sec)
      label == LabelOf(markup)
      text == Trim(TextOf(markup)) IN
  IF label # "" THEN (label \o ": ") \o text ELSE text

\* `abstract || "Abstract not available"`
AbstractOf(block) ==
  LET abstract == IF Len(block.sections) > 0
                    THEN JoinWith([i \in 1..Len(block.sections) |->
                                     RenderSection(block.sections[i])], " ")
                    ELSE "" IN
  IF abstract # "" THEN abstract ELSE "Abstract not available"

\* `firstName ? `${firstName} ${lastName}` : lastName`
AuthorName(a) == IF a.fore # "" THEN (a.fore \o " ") \o a.last ELSE a.last

NonEmpty(name) == name # ""

PublicationDate(d) ==
  IF d.present /\ d.year # ""
    THEN IF d.month # "" THEN (d.month \o " ") \o d.year ELSE d.year
    ELSE "Date not available"

\* The article pushed for a block.
PubMedArticle(block) ==
  [pmid |-> block.pmid,
   title |-> block.title,
   abstract |-> AbstractOf(block),
   authors |-> SelectSeq([i \in 1..Len(block.authors) |-> AuthorName(block.authors[i])],
                         NonEmpty),
   journal |-> IF block.journal # "" THEN block.journal
               ELSE "Journal information not available",
   publication_date |-> PublicationDate(block.pubDate)]

\* A variant that stops at the first block it cannot use.
ParseArticles_stop(xmlText) ==
  LET unusable == {i \in 1..Len(xmlText) : ~WellFormed(xmlText[i])}
      n == IF unusable = {} THEN Len(xmlText)
           ELSE (CHOOSE i \in unusable : \A j \in unusable : i <= j) - 1 IN
  [i \in 1..n |-> PubMedArticle(xmlText[i])]

\* The loop over the blocks of the phase-2 text.
ParseArticles(xmlText) == MapSeq(SelectSeq(xmlText, WellFormed), PubMedArticle)

\* A variant that goes on to phase 2 with an empty identifier list.
NoIdentifiers_never(idList) == FALSE

\* `idList.length === 0`
NoIdentifiers(idList) == Len(idList) = 0

\* A variant without the try / catch.
efetchSettle_raise(o, n) ==
  IF o.ok /\ o.hasText THEN Return(ParseArticles(o.text)) ELSE Raise(Error(o.status, n))

\* What the function makes of the phase-2 response: the parsed articles, or
\* [] from the catch block when the request failed or the response has no
\* text to match on.
efetchSettle(o, n) ==
  IF o.ok /\ o.hasText THEN Return(ParseArticles(o.text)) ELSE Return(<<>>)

\* Entry: phase 1, the identifier search.
searchPubMedArticles(c) ==
  /\ pc[c] = "start"
  /\ fn[c] = "searchPubMedArticles"
  /\ requests' = [requests EXCEPT ![c] =
        Append(@, Req(PUBMED_ESEARCH_URL, args[c].query, args[c].limit))]
  /\ pc' = [pc EXCEPT ![c] = "await_esearch"]
  /\ UNCHANGED <<callVars, result, outcomes, retryVars, scholarVars>>

\* Phase 1 settles: [] on an error or an empty list, else phase 2 starts.
esearchSettled(c) ==
  /\ pc[c] = "await_esearch"
  /\ \E ok \in BOOLEAN, ids \in IdLists, status \in Statuses :
       /\ ok \/ ids = <<>>
       /\ ~ok \/ status = 0
       /\ outcomes' = [outcomes EXCEPT ![c] =
             Append(@, [ok |-> ok, results |-> ids, status |-> status])]
       /\ IF ok /\ ~NoIdentifiers(OrEmpty(ids))
            THEN /\ requests' = [requests EXCEPT ![c] =
                       Append(@, Req(PUBMED_EFETCH_URL, Join(ids), 0))]
                 /\ pc' = [pc EXCEPT ![c] = "await_efetch"]
                 /\ UNCHANGED result
            ELSE /\ pc' = [pc EXCEPT ![c] = "done"]
                 /\ result' = [result EXCEPT ![c] = Return(<<>>)]
                 /\ UNCHANGED requests
  /\ UNCHANGED <<callVars, retryVars, scholarVars>>

\* Phase 2 settles: the text is parsed, or [] on an error.
efetchSettled(c) ==
  /\ pc[c] = "await_efetch"
  /\ \E ok \in BOOLEAN, hasText \in BOOLEAN, text \in XmlTexts, status \in Statuses :
       /\ (ok /\ hasText) \/ text = <<>>
       /\ ok \/ ~hasText
       /\ ~ok \/ status = 0
       /\ LET o == [ok |-> ok, hasText |-> hasText, text |-> text, status |-> status] IN
          /\ outcomes' = [outcomes EXCEPT ![c] = Append(@, o)]
          /\ result' = [result EXCEPT ![c] = efetchSettle(o, Len(requests[c]))]
  /\ pc' = [pc EXCEPT ![c] = "done"]
  /\ UNCHANGED <<callVars, requests, retryVars, scholarVars>>

(***************************************************************************)
(* searchGoogleScholar                                                     *)
(***************************************************************************)
\* The awaits between the launch and the wait for a result container.
PageSteps == <<"newPage", "setViewport", "setUserAgent", "setExtraHTTPHeaders", "goto">>

\* What a selector chain of the extraction pass resolved to inside one
\* container: an element with its textContent and href, or no element.
Element(text, href) == [present |-> TRUE, text |-> text, href |-> href]

Missing == [present |-> FALSE, text |-> "", href |-> ""]

\* An element below a container: the selectors of the title chain it
\* matches, its textContent and its href ("" when it is not a link).
Node(matches, text, href) == [matches |-> matches, text |-> text, href |-> href]

\* <h3 class="gs_rt"><a href="...">text</a></h3>: the heading comes before
\* the link it wraps in document order, and has the text of the link.
Wrapped(text, href) ==
  <<Node({".gs_rt", "h3"}, text, ""), Node({".gs_rt a", "h3 a"}, text, href)>>

\* <h3 class="gs_rt">text</h3>
Plain(text) == <<Node({".gs_rt", "h3"}, text, "")>>

\* <a data-clk href="...">text</a> without a heading
Bare(text, href) == <<Node({"a[data-clk]"}, text, href)>>

NoHeading == <<>>

\* element.querySelector(selectors): the first element in document order
\* that matches any selector of the list.
QuerySelector(nodes, selectors) ==
  LET hits == {i \in 1..Len(nodes) : nodes[i].matches \cap selectors # {}} IN
  IF hits = {} THEN Missing
  ELSE LET first == CHOOSE i \in hits : \A j \in hits : i <= j IN
       Element(nodes[first].text, nodes[first].href)

\* A || B on elements.
OrElement(e, f) == IF e.present THEN e ELSE f

\* titleElement
TitleElement(nodes) ==
  OrElement(QuerySelector(nodes, {".gs_rt a", ".gs_rt", "h3 a", "h3"}),
            OrElement(QuerySelector(nodes, {"a[data-clk]"}), QuerySelector(nodes, {"h3"})))

\* A container: the elements its title chain runs over, and what its
\* authors, abstract and citations chains resolved to.
Container(title, authors, abstract, citations) ==
  [title |-> title, authors |-> authors, abstract |-> abstract, citations |-> citations]

Headings ==
  {NoHeading, Plain("OK"), Wrapped(" Hello ", "http://x/1"), Wrapped("Hello!", "http://x/2"),
   Bare("Six Chars", "http://x/4"), Plain("Six Chars"),
   Wrapped("Trial 2019 report", "http://x/3")}

AuthorsElements ==
  {Missing, Element("A Smith - Nature, 2020", ""), Element("B Jones, Lancet", ""),
   Element(" C Lee in BMJ ", "")}

AbstractElements == {Missing, Element("In 2018 we measured", "")}

CitationsElements == {Missing, Element("Cited by 12", "")}

\* The containers a result page of the model is made of.
Containers ==
  {Container(NoHeading, Missing, Missing, Missing),
   Container(Plain("OK"), Missing, Missing, Missing),
   Container(Wrapped(" Hello ", "http://x/1"), Element("A Smith - Nature, 2020", ""),
             Element("In 2018 we measured", ""), Element("Cited by 12", "")),
   Container(Wrapped("Hello!", "http://x/2"), Missing, Missing, Missing),
   Container(Bare("Six Chars", "http://x/4"), Missing, Missing, Missing),
   Container(Wrapped("Trial 2019 report", "http://x/3"), Element("A Smith - Nature, 2020", ""),
             Element("In 2018 we measured", ""), Missing),
   Container(Wrapped("Trial 2019 report", "http://x/3"), Element("B Jones, Lancet", ""),
             Element("In 2018 we measured", ""), Missing),
   Container(Plain("Six Chars"), Element("B Jones, Lancet", ""),
             Element("In 2018 we measured", ""), Element("Cited by 12", "")),
   Container(Plain("Six Chars"), Element(" C Lee in BMJ ", ""), Missing, Missing)}

\* A search result of the page: one container, or a '.gs_r' container with
\* a '.gs_ri' container nested in it; the chains of both resolve to the same
\* elements, which are descendants of both.
SearchResult(nested, content) == [nested |-> nested, content |-> content]

SearchResults == {SearchResult(n, k) : n \in BOOLEAN, k \in Containers}

\* The result pages of the model.
Documents == SeqsUpTo(MaxContainers, SearchResults)

\* The pages served when several sessions run at once.
ConcurrentDocuments ==
  {<<>>, <<SearchResult(FALSE, Container(Plain("Six Chars"), Element(" C Lee in BMJ ", ""),
                                         Missing, Missing))>>}

ServedDocuments == IF Cardinality(active) = 1 THEN Documents ELSE ConcurrentDocuments

\* A variant that matches the outer container of a result only.
Matched_outerOnly(r) == <<r.content>>

\* The elements of a result that match ".gs_r, .gs_ri, [data-rp]", in
\* document order: the nested container comes after the one it is nested in.
Matched(r) == IF r.nested THEN <<r.content, r.content>> ELSE <<r.content>>

\* document.querySelectorAll(".gs_r, .gs_ri, [data-rp]")
RECURSIVE QuerySelectorAll(_)
QuerySelectorAll(results) ==
  IF Len(results) = 0 THEN <<>>
  ELSE Matched(results[1]) \o QuerySelectorAll(Tail(results))

\* Math.random(), in thousandths.
Randoms == {0, 999}

ServedRandoms == IF Cardinality(active) = 1 THEN Randoms ELSE {0}

\* A variant that forgets to add the minimum.
RandomDelay_noMin(min, max, random) == (random * (max - min)) \div 1000

\* `Math.random() * (max - min) + min`
RandomDelay(min, max, random) == (random * (max - min)) \div 1000 + min

\* `element?.textContent?.trim() || ""`
TrimmedText(el) == IF el.present THEN Trim(el.text) ELSE ""

\* `(titleElement as HTMLAnchorElement)?.href || ""`
Href(el) == IF el.present THEN el.href ELSE ""

\* `s.match(/(\d{4})/)`: the captures of the leftmost match, <<>> for null.
MatchYear(s) ==
  LET starts == {i \in 1..Len(s) :
                   /\ i + 3 <= Len(s)
                   /\ \A k \in 0..3 : IsDigit(SubSeq(s, i + k, i + k))} IN
  IF starts = {} THEN <<>>
  ELSE LET first == CHOOSE i \in starts : \A j \in starts : i <= j IN
       <<SubSeq(s, first, first + 3)>>

\* A || B on match results.
OrElse(m, n) == IF m # <<>> THEN m ELSE n

\* A variant that looks at the title before the author/venue text.
ExtractYear_titleFirst(authors, title, abstract) ==
  LET yearMatch == OrElse(MatchYear(title), OrElse(MatchYear(authors), MatchYear(abstract))) IN
  IF yearMatch # <<>> THEN yearMatch[1] ELSE ""

\* The year: authors, then title, then abstract.
ExtractYear(authors, title, abstract) ==
  LET yearMatch == OrElse(MatchYear(authors), OrElse(MatchYear(title), MatchYear(abstract))) IN
  IF yearMatch # <<>> THEN yearMatch[1] ELSE ""

\* The last position of the character ch in s, 0 when it does not occur.
LastIndexOf(s, ch) ==
  LET at == {i \in 1..Len(s) : SubSeq(s, i, i) = ch} IN
  IF at = {} THEN 0 ELSE CHOOSE i \in at : \A j \in at : j <= i

\* `s.match(/- ([^-]+)$/)` and `s.match(/, ([^,]+)$/)`, sep being "-" or ",":
\* only the last sep of s can start a match.
MatchTail(s, sep) ==
  LET i == LastIndexOf(s, sep) IN
  IF i > 0 /\ i + 2 <= Len(s) /\ SubSeq(s, i + 1, i + 1) = " "
    THEN <<SubSeq(s, i + 2, Len(s))>>
    ELSE <<>>

\* `s.match(/in ([^,]+)/)`
MatchIn(s) ==
  LET starts == {i \in 1..Len(s) :
                   /\ i + 3 <= Len(s)
                   /\ SubSeq(s, i, i + 2) = "in "
                   /\ SubSeq(s, i + 3, i + 3) # ","} IN
  IF starts = {} THEN <<>>
  ELSE LET first == CHOOSE i \in starts : \A j \in starts : i <= j
           comma == IndexOf(s, ",", first + 3) IN
       <<SubSeq(s, first + 3, IF comma = 0 THEN Len(s) ELSE comma - 1)>>

ExtractJournal(authors) ==
  LET journalMatch ==
        OrElse(MatchTail(authors, "-"), OrElse(MatchTail(authors, ","), MatchIn(authors))) IN
  IF journalMatch # <<>> THEN Trim(journalMatch[1]) ELSE ""

\* The record the extraction pass builds for a container.
GoogleScholarArticle(container) ==
  LET titleElement == TitleElement(container.title)
      title == TrimmedText(titleElement)
      authors == TrimmedText(container.authors)
      abstract == TrimmedText(container.abstract) IN
  [title |-> title, authors |-> authors, abstract |-> abstract,
   journal |-> ExtractJournal(authors),
   year |-> ExtractYear(authors, title, abstract),
   citations |-> TrimmedText(container.citations),
   url |-> Href(titleElement)]

\* A variant that admits a title of 5 characters.
Admitted_atLeast5(title) == title # "" /\ Len(title) >= 5

\* `if (title && title.length > 5)`
Admitted(title) == title # "" /\ Len(title) > 5

Admissible(article) == Admitted(article.title)

\* The callback of page.evaluate().
ExtractArticles(containers) ==
  SelectSeq([i \in 1..Len(containers) |-> GoogleScholarArticle(containers[i])], Admissible)

\* An error thrown by a step of the session.
StepError(step) == [status |-> 0, message |-> step, id |-> 0]

NoResultsError ==
  [status |-> 0, message |-> "No search results found or page structure changed", id |-> 0]

\* A variant in which `browser` is one variable shared by all the calls.
ScholarFrame_shared(c) == 1

\* `let browser` is a local of the call: each call has its own.
ScholarFrame(c) == c

\* A browser process right after call c launched it and opened a page on it.
Process(c) == [launchedBy |-> c, open |-> TRUE, usedBy |-> {c}, closedBy |-> {}]

\* `if (browser)` of the finally block.
MustClose(b) == b # "undefined"

\* The try block or the catch block completed with r: the finally block up
\* to its `await browser.close()`.
Finally(c, r) ==
  IF MustClose(browser[c])
    THEN /\ closes' = [closes EXCEPT ![c] = @ + 1]
         /\ steps' = [steps EXCEPT ![c] = Append(@, "close")]
         /\ completion' = [completion EXCEPT ![c] = r]
         /\ processes' = [processes EXCEPT ![handle[ScholarFrame(c)]].closedBy = @ \cup {c}]
         /\ pc' = [pc EXCEPT ![c] = "await_close"]
         /\ UNCHANGED result
    ELSE /\ pc' = [pc EXCEPT ![c] = "done"]
         /\ result' = [result EXCEPT ![c] = r]
         /\ UNCHANGED <<closes, steps, completion, processes>>

\* A variant whose failure path returns without the cleanup.
Catch_noCleanup(c, error) ==
  /\ caught' = [caught EXCEPT ![c] = error]
  /\ pc' = [pc EXCEPT ![c] = "done"]
  /\ result' = [result EXCEPT ![c] = Return(<<>>)]
  /\ UNCHANGED <<closes, steps, completion, processes>>

\* `catch (error) { console.error(...); return []; }`
Catch(c, error) ==
  /\ caught' = [caught EXCEPT ![c] = error]
  /\ Finally(c, Return(<<>>))

\* Entry: `await randomDelay(1000, 3000)`.
searchGoogleScholar(c) ==
  /\ pc[c] = "start"
  /\ fn[c] = "searchGoogleScholar"
  /\ \E random \in ServedRandoms :
       timer' = [timer EXCEPT ![c] = RandomDelay(MinDelay, MaxDelay, random)]
  /\ steps' = [steps EXCEPT ![c] = Append(@, "randomDelay")]
  /\ pc' = [pc EXCEPT ![c] = "await_randomDelay"]
  /\ UNCHANGED <<callVars, result, requests, outcomes, retryVars, browser, closes,
                 completion, caught, fallback, page, document, handle, processes>>

\* The delay is over: `browser = await puppeteer.launch(...)`.
delayElapsed(c) ==
  /\ pc[c] = "await_randomDelay"
  /\ steps' = [steps EXCEPT ![c] = Append(@, "launch")]
  /\ pc' = [pc EXCEPT ![c] = "await_launch"]
  /\ UNCHANGED <<callVars, result, requests, outcomes, retryVars, browser, closes,
                 completion, caught, fallback, page, document, timer, handle,
                 processes>>

\* The launch settles; on success the browser is assigned and newPage() starts.
launchSettled(c) ==
  /\ pc[c] = "await_launch"
  /\ \E ok \in BOOLEAN :
       IF ok
         THEN /\ browser' = [browser EXCEPT ![c] = "open"]
              /\ processes' = Append(processes, Process(c))
              /\ handle' = [handle EXCEPT ![ScholarFrame(c)] = Len(processes) + 1]
              /\ steps' = [steps EXCEPT ![c] = Append(@, PageSteps[1])]
              /\ pc' = [pc EXCEPT ![c] = "await_page"]
              /\ UNCHANGED <<result, closes, completion, caught>>
         ELSE /\ Catch(c, StepError("launch"))
              /\ UNCHANGED <<browser, handle>>
  /\ UNCHANGED <<callVars, requests, outcomes, retryVars, fallback, page, document, timer>>

\* The page step in progress (the last of `steps`) settles: the next page
\* step starts (goto requests the search URL), and after goto the wait for
\* a result container.
pageStepSettled(c) ==
  /\ pc[c] = "await_page"
  /\ LET n == CHOOSE i \in 1..Len(PageSteps) : PageSteps[i] = steps[c][Len(steps[c])] IN
     \E ok \in BOOLEAN :
       IF ok
         THEN /\ steps' = [steps EXCEPT ![c] =
                    Append(@, IF n < Len(PageSteps) THEN PageSteps[n + 1]
                                                   ELSE "waitForSelector")]
              /\ pc' = [pc EXCEPT ![c] =
                    IF n < Len(PageSteps) THEN "await_page" ELSE "await_waitForSelector"]
              /\ requests' = [requests EXCEPT ![c] =
                    IF n < Len(PageSteps) /\ PageSteps[n + 1] = "goto"
                      THEN Append(@, Req(GOOGLE_SCHOLAR_URL, args[c].query, 0))
                      ELSE @]
              /\ UNCHANGED <<result, closes, completion, caught, processes>>
         ELSE /\ Catch(c, StepError(PageSteps[n]))
              /\ UNCHANGED requests
  /\ UNCHANGED <<callVars, outcomes, retryVars, browser, fallback, page, document, timer,
                 handle>>

\* page.waitForSelector(".gs_r, .gs_ri") settles: on success the extraction
\* pass starts, on a timeout the inner catch looks for the fallback container.
waitForSelectorSettled(c) ==
  /\ pc[c] = "await_waitForSelector"
  /\ \E ok \in BOOLEAN :
       /\ steps' = [steps EXCEPT ![c] = Append(@, IF ok THEN "evaluate" ELSE "$")]
       /\ pc' = [pc EXCEPT ![c] = IF ok THEN "await_evaluate" ELSE "await_$"]
  /\ UNCHANGED <<callVars, result, requests, outcomes, retryVars, browser, closes,
                 completion, caught, fallback, page, document, timer, handle,
                 processes>>

\* page.$(".gs_r") settles with an element, with null or with an error.
fallbackSettled(c) ==
  /\ pc[c] = "await_$"
  /\ \E found \in {"element", "null", "error"} :
       /\ fallback' = [fallback EXCEPT ![c] = found]
       /\ IF found = "element"
            THEN /\ steps' = [steps EXCEPT ![c] = Append(@, "evaluate")]
                 /\ pc' = [pc EXCEPT ![c] = "await_evaluate"]
                 /\ UNCHANGED <<result, closes, completion, caught, processes>>
            ELSE Catch(c, IF found = "null" THEN NoResultsError ELSE StepError("$"))
  /\ UNCHANGED <<callVars, requests, outcomes, retryVars, browser, page, document, timer,
                 handle>>

\* page.evaluate() settles: `return await page.evaluate(...)` or the catch.
evaluateSettled(c) ==
  /\ pc[c] = "await_evaluate"
  /\ \/ \E results \in ServedDocuments :
          LET containers == QuerySelectorAll(results) IN
          /\ document' = [document EXCEPT ![c] = results]
          /\ page' = [page EXCEPT ![c] = containers]
          /\ Finally(c, Return(ExtractArticles(containers)))
          /\ UNCHANGED caught
     \/ /\ Catch(c, StepError("evaluate"))
        /\ UNCHANGED <<page, document>>
  /\ UNCHANGED <<callVars, requests, outcomes, retryVars, browser, fallback, timer, handle>>

\* browser.close() settles.  When it rejects, the rejection replaces what
\* try / catch completed with, and the process may or may not be gone.
closeSettled(c) ==
  /\ pc[c] = "await_close"
  /\ \/ /\ browser' = [browser EXCEPT ![c] = "closed"]
        /\ processes' = [processes EXCEPT ![handle[ScholarFrame(c)]].open = FALSE]
        /\ result' = [result EXCEPT ![c] = completion[c]]
     \/ /\ \E b \in {"open", "closed"} :
             /\ browser' = [browser EXCEPT ![c] = b]
             /\ processes' = [processes EXCEPT ![handle[ScholarFrame(c)]].open =
                                (@ /\ b = "open")]
        /\ result' = [result EXCEPT ![c] = Raise(StepError("close"))]
  /\ pc' = [pc EXCEPT ![c] = "done"]
  /\ UNCHANGED <<callVars, requests, outcomes, retryVars, closes, steps, completion,
                 caught, fallback, page, document, timer, handle>>

(***************************************************************************)
(* The tool handlers of the front end (index.ts): each awaits its          *)
(* acquisition function inside try / catch and answers with a text.        *)
(***************************************************************************)
\* The acquisition functions a tool is registered for.
Tools == Functions \ {"retryFDAApiCall", "searchAdverseEventsByReaction"}

\* The functions whose records are passed on as the remote service sent them.
RawRecords == RetryWrapped \cup SingleRequest

NoResponse == [kind |-> "pending", outcome |-> "none", message |-> "", outage |-> FALSE,
               count |-> 0]

\* `return { content: [{ type: "text", text }] }`
Text(outcome, message, outage, count) ==
  [kind |-> "text", outcome |-> outcome, message |-> message, outage |-> outage,
   count |-> count]

\* What the formatting code throws on a record without the field it reads.
TypeError == [status |-> 0, message |-> "TypeError", id |-> 0]

\* `error.message || "Unknown error"`
MessageOf(error) == IF error.message # "" THEN error.message ELSE "Unknown error"

\* `originalError.status >= 500 && error.context?.retryAttempted`
IsApiOutage(originalError, retryAttempted) == originalError.status >= 500 /\ retryAttempted

\* A variant in which the handler of search-drug-interactions has no catch.
HandlerCatch_rethrow(f, error, contextual) ==
  IF f = "searchDrugInteractions"
    THEN [kind |-> "raise", outcome |-> "error", message |-> error.message,
          outage |-> FALSE, count |-> 0]
  ELSE Text("error", MessageOf(error), FALSE, 0)

\* The catch block of the handler of f.  `contextual`: the error is the one
\* searchDrugs threw, with originalError and context.
HandlerCatch(f, error, contextual) ==
  IF f = "searchDrugs"
    THEN Text("error", error.message,
              IF contextual
                THEN IsApiOutage(error.originalError, error.context.retryAttempted)
                ELSE IsApiOutage(error, FALSE),
              0)
    ELSE Text("error", MessageOf(error), FALSE, 0)

\* The try block of the handler of f once the function returned r.
HandlerTry(f, r) ==
  IF r.type \in {"null"} \/ (r.type = "array" /\ Len(r.value) = 0)
    THEN Text("empty", "", FALSE, 0)
    ELSE Text("results", "", FALSE, Len(r.value))

\* The formatting code reads fields of the records: it can throw on records
\* that come from the remote service as they are.
CanThrow(f, r) == f \in RawRecords /\ r.kind = "return" /\ Len(r.value) > 0

\* The acquisition function of call c settled: the rest of its handler.
toolHandler(c) ==
  /\ pc[c] = "done"
  /\ fn[c] \in Tools
  /\ response[c] = NoResponse
  /\ \E throws \in BOOLEAN :
       /\ throws => CanThrow(fn[c], result[c])
       /\ response' = [response EXCEPT ![c] =
            IF result[c].kind = "raise" THEN HandlerCatch(fn[c], result[c].error, TRUE)
            ELSE IF throws THEN HandlerCatch(fn[c], TypeError, FALSE)
            ELSE HandlerTry(fn[c], result[c])]
  /\ UNCHANGED <<active, fn, args, pc, result, requests, outcomes, retryVars, scholarVars>>

(***************************************************************************)
(* Specification: one call of one function with any arguments.             *)
(***************************************************************************)
InitCall(c, f, a) ==
  /\ fn = [d \in Calls |-> IF d = c THEN f ELSE "none"]
  /\ args = [d \in Calls |-> IF d = c THEN a ELSE NoArgs]
  /\ pc = [d \in Calls |-> IF d = c THEN "start" ELSE "idle"]

\* Nothing has run yet.
InitState ==
  /\ result = [c \in Calls |-> Pending]
  /\ requests = [c \in Calls |-> <<>>]
  /\ attempt = [c \in Calls |-> 0]
  /\ lastError = [c \in Calls |-> Undefined]
  /\ outcomes = [c \in Calls |-> <<>>]
  /\ waits = [c \in Calls |-> <<>>]
  /\ retryResult = [c \in Calls |-> Pending]
  /\ browser = [c \in Calls |-> "undefined"]
  /\ closes = [c \in Calls |-> 0]
  /\ steps = [c \in Calls |-> <<>>]
  /\ completion = [c \in Calls |-> Pending]
  /\ caught = [c \in Calls |-> Undefined]
  /\ fallback = [c \in Calls |-> "none"]
  /\ page = [c \in Calls |-> <<>>]
  /\ document = [c \in Calls |-> <<>>]
  /\ timer = [c \in Calls |-> 0]
  /\ handle = [c \in Calls |-> 0]
  /\ processes = <<>>
  /\ response = [c \in Calls |-> NoResponse]

Init ==
  /\ active = {1}
  /\ \E f \in Functions : \E a \in ArgsOf(f) : InitCall(1, f, a)
  /\ InitState

Next ==
  \/ \E c \in active : retryFDAApiCall(c)
  \/ \E c \in active : apiCallSettled(c)
  \/ \E c \in active : backoffElapsed(c)
  \/ \E c \in active : sendRequest(c)
  \/ \E c \in active : responseSettled(c)
  \/ \E c \in active : getHealthIndicators(c)
  \/ \E c \in active : indicatorSettled(c)
  \/ \E c \in active : searchPubMedArticles(c)
  \/ \E c \in active : esearchSettled(c)
  \/ \E c \in active : efetchSettled(c)
  \/ \E c \in active : searchGoogleScholar(c)
  \/ \E c \in active : delayElapsed(c)
  \/ \E c \in active : launchSettled(c)
  \/ \E c \in active : pageStepSettled(c)
  \/ \E c \in active : waitForSelectorSettled(c)
  \/ \E c \in active : fallbackSettled(c)
  \/ \E c \in active : evaluateSettled(c)
  \/ \E c \in active : closeSettled(c)
  \/ \E c \in active : toolHandler(c)

Spec == Init /\ [][Next]_vars

(***************************************************************************)
(* Specification: two concurrent calls of searchGoogleScholar.             *)
(***************************************************************************)
InitScholar ==
  /\ active = Calls
  /\ fn = [c \in Calls |-> "searchGoogleScholar"]
  /\ args \in [Calls -> ArgsOf("searchGoogleScholar")]
  /\ pc = [c \in Calls |-> "start"]
  /\ InitState

NextScholar ==
  \/ \E c \in active : searchGoogleScholar(c)
  \/ \E c \in active : delayElapsed(c)
  \/ \E c \in active : launchSettled(c)
  \/ \E c \in active : pageStepSettled(c)
  \/ \E c \in active : waitForSelectorSettled(c)
  \/ \E c \in active : fallbackSettled(c)
  \/ \E c \in active : evaluateSettled(c)
  \/ \E c \in active : closeSettled(c)

SpecScholar == InitScholar /\ [][NextScholar]_vars

(***************************************************************************)
(* Specification: two concurrent retry-controlled calls.                   *)
(***************************************************************************)
\* The arguments drawn when several retry-controlled calls run at once.
ConcurrentArgsOf(f) ==
  IF f = "retryFDAApiCall"
    THEN Args({""}, {DefaultLimit}, {NoField}, {1, DefaultMaxRetries}, {DefaultBaseDelay})
    ELSE {a \in ArgsOf(f) : a.query = "aspirin" /\ a.limit = DefaultLimit}

InitRetry ==
  /\ active = Calls
  /\ fn \in [Calls -> {"retryFDAApiCall"} \cup RetryWrapped]
  /\ args \in [Calls -> UNION {ConcurrentArgsOf(f) : f \in {"retryFDAApiCall"} \cup RetryWrapped}]
  /\ \A c \in Calls : args[c] \in ConcurrentArgsOf(fn[c])
  /\ pc = [c \in Calls |-> "start"]
  /\ InitState

NextRetry ==
  \/ \E c \in active : retryFDAApiCall(c)
  \/ \E c \in active : apiCallSettled(c)
  \/ \E c \in active : backoffElapsed(c)

SpecRetry == InitRetry /\ [][NextRetry]_vars

\* One call of a retry-controlled function, every awaited promise settling:
\* each invocation of the wrapped operation terminates and each backoff
\* timer fires.
InitRetryFair ==
  /\ active = {1}
  /\ \E f \in {"retryFDAApiCall"} \cup RetryWrapped : \E a \in ArgsOf(f) : InitCall(1, f, a)
  /\ InitState

SpecRetryFair == InitRetryFair /\ [][NextRetry]_vars /\ WF_vars(NextRetry)

TypeOK ==
  /\ active \subseteq Calls
  /\ \A c \in Calls : pc[c] \in {"idle", "start", "await_apiCall", "await_backoff",
                              "await_response", "await_indicator", "await_esearch",
                              "await_efetch", "await_randomDelay", "await_launch",
                              "await_page", "await_waitForSelector", "await_$",
                              "await_evaluate", "await_close", "done"}

(***************************************************************************)
(* Properties.                                                             *)
(***************************************************************************)
UsesRetry(c) == fn[c] \in {"retryFDAApiCall", "searchDrugs", "searchAdverseEvents"}

Done(c) == pc[c] = "done"

\* A failure the claims call retryable: status 429 or any 5xx.
RetryableFailure(o) == ~o.ok /\ (o.status = 429 \/ o.status >= 500)

\* A failure the claims call client-class: [400,499) other than 429.
ClientFailure(o) == ~o.ok /\ o.status >= 400 /\ o.status < 499 /\ o.status # 429

AllRetryable(c) == \A i \in 1..Len(outcomes[c]) : RetryableFailure(outcomes[c][i])

\* C1: when every invocation of the wrapped operation fails with a retryable
\* error, retryFDAApiCall has invoked it exactly maxRetries times when it
\* finishes, and it finishes by raising; it never invokes it more often.
C1_ExactlyMaxRetriesAttempts ==
  \A c \in active :
    UsesRetry(c) =>
      /\ Len(requests[c]) <= args[c].maxRetries
      /\ (Done(c) /\ AllRetryable(c)) =>
           /\ Len(outcomes[c]) = args[c].maxRetries
           /\ Len(requests[c]) = args[c].maxRetries
           /\ retryResult[c].kind = "raise"

C1_Witness ==
  \E c \in active :
    /\ UsesRetry(c) /\ Done(c) /\ AllRetryable(c)
    /\ args[c].maxRetries = DefaultMaxRetries
    /\ Len(outcomes[c]) = DefaultMaxRetries
    /\ retryResult[c].kind = "raise"

\* C2: the k-th wait of retryFDAApiCall lasts baseDelay * 2^(k-1), so the
\* waits double; a wait is performed after a failed attempt k and before
\* attempt k+1 and at no other time.
C2_BackoffDoubles ==
  \A c \in active :
    UsesRetry(c) =>
      /\ \A k \in 1..Len(waits[c]) :
           /\ waits[c][k] = args[c].baseDelay * 2^(k - 1)
           /\ k > 1 => waits[c][k] = 2 * waits[c][k - 1]
           /\ k <= Len(outcomes[c]) /\ ~outcomes[c][k].ok
      /\ Len(waits[c]) =
           IF pc[c] = "await_backoff" THEN Len(requests[c])
           ELSE IF Len(requests[c]) = 0 THEN 0
           ELSE Len(requests[c]) - 1

C2_Witness ==
  \E c \in active :
    /\ fn[c] = "searchDrugs" /\ Done(c)
    /\ waits[c] = <<1000, 2000>>
    /\ Len(requests[c]) = 3

\* C3: a client-class failure of any attempt ends retryFDAApiCall at once:
\* that error is raised, no wait follows and no further invocation is made.
C3_ClientErrorNotRetried ==
  \A c \in active :
    UsesRetry(c) =>
      \A i \in 1..Len(outcomes[c]) :
        ClientFailure(outcomes[c][i]) =>
          /\ i = Len(outcomes[c])
          /\ Done(c)
          /\ retryResult[c] = Raise(Error(outcomes[c][i].status, i))
          /\ Len(requests[c]) = i
          /\ Len(waits[c]) = i - 1

C3_Witness ==
  \E c \in active :
    /\ UsesRetry(c) /\ Done(c)
    /\ Len(outcomes[c]) = 2
    /\ outcomes[c][1].status = 503
    /\ outcomes[c][2].status = 404
    /\ retryResult[c] = Raise(Error(404, 2))

\* C4: the first successful invocation ends retryFDAApiCall: its value is
\* returned, and no invocation and no wait follows.
C4_ReturnsOnSuccess ==
  \A c \in active :
    UsesRetry(c) =>
      \A i \in 1..Len(outcomes[c]) :
        outcomes[c][i].ok =>
          /\ i = Len(outcomes[c])
          /\ Done(c)
          /\ retryResult[c] = Return(OrEmpty(outcomes[c][i].results))
          /\ Len(requests[c]) = i
          /\ Len(waits[c]) = i - 1

C4_Witness ==
  \E c \in active :
    /\ UsesRetry(c) /\ Done(c)
    /\ Len(outcomes[c]) = 2
    /\ outcomes[c][2].ok
    /\ retryResult[c] = Return(<<"rec1">>)

\* C5: when all maxRetries attempts fail, the error retryFDAApiCall raises
\* is the error of attempt number maxRetries.
C5_RaisesLastError ==
  \A c \in active :
    (/\ UsesRetry(c) /\ Done(c)
     /\ args[c].maxRetries >= 1
     /\ Len(outcomes[c]) = args[c].maxRetries
     /\ \A i \in 1..Len(outcomes[c]) : ~outcomes[c][i].ok) =>
      LET n == args[c].maxRetries IN
      /\ retryResult[c].kind = "raise"
      /\ retryResult[c].error = Error(outcomes[c][n].status, n)
      /\ retryResult[c].error = lastError[c]

C5_Witness ==
  \E c \in active :
    /\ UsesRetry(c) /\ Done(c)
    /\ args[c].maxRetries = 3
    /\ Len(outcomes[c]) = 3
    /\ outcomes[c][1].status = 500
    /\ outcomes[c][3].status = 503
    /\ retryResult[c] = Raise(Error(503, 3))

\* The launch of call c succeeded: newPage() was started on its browser.
Launched(c) == \E i \in 1..Len(steps[c]) : steps[c][i] = "newPage"

\* C6: when searchGoogleScholar is over, browser.close() has been called
\* exactly once if the launch succeeded and never if it failed, and a call
\* that returns leaves no open browser; close is never called twice.
C6_BrowserReleased ==
  \A c \in active :
    fn[c] = "searchGoogleScholar" =>
      /\ closes[c] <= 1
      /\ ~Launched(c) => closes[c] = 0 /\ browser[c] = "undefined"
      /\ Done(c) =>
           /\ closes[c] = IF Launched(c) THEN 1 ELSE 0
           /\ result[c].kind = "return" => browser[c] # "open"

C6_Witness ==
  \E c \in active :
    /\ fn[c] = "searchGoogleScholar" /\ Done(c)
    /\ Launched(c)
    /\ steps[c][Len(steps[c]) - 1] = "$"
    /\ result[c] = Return(<<>>)
    /\ closes[c] = 1
    /\ browser[c] = "closed"

\* C7: searchGoogleScholar always completes by returning, never by raising,
\* whichever step of the session failed.
C7_NeverPropagates ==
  \A c \in active :
    (fn[c] = "searchGoogleScholar" /\ Done(c)) => result[c].kind = "return"

\* C8: when the retry-wrapped request of searchDrugs fails, searchDrugs
\* raises an error whose originalError is the error retryFDAApiCall raised
\* and whose context holds the query, the selected field, the search
\* expression that was requested and the endpoint URL.
C8_ContextualFailure ==
  \A c \in active :
    (fn[c] = "searchDrugs" /\ Done(c) /\ retryResult[c].kind = "raise") =>
      /\ result[c].kind = "raise"
      /\ result[c].error.originalError = retryResult[c].error
      /\ result[c].error.originalError =
           Error(outcomes[c][Len(outcomes[c])].status, Len(outcomes[c]))
      /\ result[c].error.context.query = args[c].query
      /\ result[c].error.context.searchField = args[c].searchField
      /\ \A i \in 1..Len(requests[c]) :
           /\ result[c].error.context.searchQuery = requests[c][i].search
           /\ result[c].error.context.apiUrl = requests[c][i].url

C8_Witness ==
  \E c \in active :
    /\ fn[c] = "searchDrugs" /\ Done(c)
    /\ args[c].searchField = "active_ingredient"
    /\ args[c].query = "aspirin"
    /\ result[c].kind = "raise"
    /\ result[c].error.originalError = Error(503, 3)
    /\ result[c].error.context.searchQuery = "openfda.substance_name:aspirin"

\* The acquisition functions: what the layer exports.
AcquisitionFunctions == Functions \ {"retryFDAApiCall"}

\* Some remote request of call c failed.
RequestFailed(c) == \E i \in 1..Len(outcomes[c]) : ~outcomes[c][i].ok

\* C9: an acquisition function other than searchDrugs whose remote request
\* failed does not raise: it returns an empty sequence (null, for the
\* function that returns one record).
C9_FailuresAbsorbed ==
  \A c \in active :
    (/\ fn[c] \in AcquisitionFunctions \ {"searchDrugs"}
     /\ Done(c) /\ RequestFailed(c)) =>
      /\ result[c].kind = "return"
      /\ result[c].type = "array" => result[c].value = <<>>
      /\ result[c].type # "object"

\* No request of call c was issued twice, and the call never waited to retry.
NoRetry(c) ==
  /\ \A i, j \in 1..Len(requests[c]) : i # j => requests[c][i] # requests[c][j]
  /\ waits[c] = <<>>

IsPubMed(c) == fn[c] = "searchPubMedArticles"

\* The number of phase-2 requests call c issued.
EfetchCount(c) ==
  Cardinality({i \in 1..Len(requests[c]) : requests[c][i].url = PUBMED_EFETCH_URL})

\* Phase 1 of call c completed, with the identifiers ids.
Phase1Yielded(c, ids) ==
  /\ Len(outcomes[c]) >= 1
  /\ outcomes[c][1].ok
  /\ OrEmpty(outcomes[c][1].results) = ids

\* C11: when phase 1 of searchPubMedArticles yields no identifier the call
\* returns [] and issues no phase-2 request; a phase-2 request is issued only
\* after phase 1 completed with at least one identifier, and at most once.
C11_NoPhase2WithoutIds ==
  \A c \in active :
    IsPubMed(c) =>
      /\ EfetchCount(c) <= 1
      /\ EfetchCount(c) = 1 =>
           /\ Len(outcomes[c]) >= 1
           /\ outcomes[c][1].ok
           /\ Len(OrEmpty(outcomes[c][1].results)) >= 1
           /\ requests[c][1].url = PUBMED_ESEARCH_URL
           /\ requests[c][2].url = PUBMED_EFETCH_URL
      /\ Phase1Yielded(c, <<>>) =>
           /\ Done(c)
           /\ result[c] = Return(<<>>)
           /\ EfetchCount(c) = 0

C11_Witness ==
  \E c \in active :
    /\ IsPubMed(c) /\ Done(c)
    /\ Phase1Yielded(c, <<>>)
    /\ outcomes[c][1].results = <<>>
    /\ Len(requests[c]) = 1
    /\ result[c] = Return(<<>>)

\* Phase 1, phase 2 or the parsing of call c failed.
PubMedFailed(c) ==
  \/ Len(outcomes[c]) >= 1 /\ ~outcomes[c][1].ok
  \/ Len(outcomes[c]) >= 2 /\ (~outcomes[c][2].ok \/ ~outcomes[c][2].hasText)

\* C12: searchPubMedArticles never raises, and after a failure in phase 1,
\* in phase 2 or while parsing it returns the empty sequence.
C12_PubMedFailsToEmpty ==
  \A c \in active :
    (IsPubMed(c) /\ Done(c)) =>
      /\ result[c].kind = "return"
      /\ PubMedFailed(c) => result[c] = Return(<<>>)

C12_Witness ==
  \E c \in active :
    /\ IsPubMed(c) /\ Done(c)
    /\ Len(outcomes[c]) = 2
    /\ ~outcomes[c][2].ok
    /\ outcomes[c][2].status = 500
    /\ result[c] = Return(<<>>)

\* Call c is over and has parsed the phase-2 text.
Parsed(c) ==
  /\ IsPubMed(c) /\ Done(c)
  /\ Len(outcomes[c]) = 2
  /\ outcomes[c][2].ok /\ outcomes[c][2].hasText

XmlTextOf(c) == outcomes[c][2].text

\* The block has both an identifier and a title.
BothMarkers(block) == block.pmid # "" /\ block.title # ""

\* The positions of the blocks of text that have both markers.
BothMarkersAt(text) == {i \in 1..Len(text) : BothMarkers(text[i])}

\* C13: every article searchPubMedArticles returns has a non-empty pmid and
\* a non-empty title, and a block lacking either marker yields no article.
C13_ArticlesHaveIdAndTitle ==
  \A c \in active :
    (IsPubMed(c) /\ Done(c)) =>
      /\ \A k \in 1..Len(result[c].value) :
           result[c].value[k].pmid # "" /\ result[c].value[k].title # ""
      /\ Parsed(c) =>
           Len(result[c].value) = Cardinality(BothMarkersAt(XmlTextOf(c)))

C13_Witness ==
  \E c \in active :
    /\ Parsed(c)
    /\ Len(XmlTextOf(c)) = 2
    /\ XmlTextOf(c)[1].pmid = "101" /\ XmlTextOf(c)[1].title = ""
    /\ XmlTextOf(c)[2].pmid = "102" /\ XmlTextOf(c)[2].title # ""
    /\ Len(result[c].value) = 1
    /\ result[c].value[1].pmid = "102"

\* The position in the result of the article of the i-th block.
RankOf(text, i) == Cardinality({j \in BothMarkersAt(text) : j <= i})

\* The article the code returns for a text that holds this block alone.
ArticleAlone(block) == ParseArticles(<<block>>)[1]

Placeholder == "Abstract not available"

\* A section rendered as stated: label, separator, trimmed text.
ClaimedRendering(sec) ==
  IF sec.label # "" THEN (sec.label \o ": ") \o Trim(sec.text) ELSE Trim(sec.text)

ClaimedAbstract(secs) ==
  IF Len(secs) = 0 THEN Placeholder
  ELSE JoinWith([i \in 1..Len(secs) |-> ClaimedRendering(secs[i])], " ")

\* The articles of call c carry the abstract Abs makes of their sections.
AbstractsAre(c, Abs(_)) ==
  LET text == XmlTextOf(c) IN
  /\ Len(result[c].value) = Cardinality(BothMarkersAt(text))
  /\ \A i \in BothMarkersAt(text) :
       result[c].value[RankOf(text, i)].abstract = Abs(text[i].sections)

\* C15: the abstract is the sections in order, each "<Label>: <text>" when
\* it has a label attribute and the bare text otherwise, joined by one space,
\* and the placeholder when the block has no section.
C15_AbstractAsClaimed ==
  \A c \in active : Parsed(c) => AbstractsAre(c, ClaimedAbstract)

IsScholar(c) == fn[c] = "searchGoogleScholar"

\* Call c started the step.
Started(c, step) == \E i \in 1..Len(steps[c]) : steps[c][i] = step

\* C16: when the wait for a result container times out and the page has no
\* fallback container, the session raises the no-results failure, runs no
\* extraction pass and the call returns []; when the fallback container is
\* present the extraction pass runs.
C16_NoResultsReturnsEmpty ==
  \A c \in active :
    IsScholar(c) =>
      /\ fallback[c] # "none" => Started(c, "$")
      /\ fallback[c] = "null" =>
           /\ caught[c] = NoResultsError
           /\ ~Started(c, "evaluate")
           /\ Done(c) => result[c] = Return(<<>>)
      /\ fallback[c] = "element" => Started(c, "evaluate")

\* The extraction pass of call c ran and the call returned.
Extracted(c) ==
  /\ IsScholar(c) /\ Done(c)
  /\ Started(c, "evaluate")
  /\ caught[c] = Undefined
  /\ result[c].kind = "return"

\* The trimmed title of each heading of the model.
TitleOf(heading) ==
  CASE heading = NoHeading -> ""
    [] heading = Plain("OK") -> "OK"
    [] heading = Wrapped(" Hello ", "http://x/1") -> "Hello"
    [] heading = Wrapped("Hello!", "http://x/2") -> "Hello!"
    [] heading = Bare("Six Chars", "http://x/4") -> "Six Chars"
    [] heading = Plain("Six Chars") -> "Six Chars"
    [] heading = Wrapped("Trial 2019 report", "http://x/3") -> "Trial 2019 report"

\* The positions of the containers whose trimmed title exceeds 5 characters.
LongTitlesAt(containers) ==
  {i \in 1..Len(containers) : Len(TitleOf(containers[i].title)) > 5}

RecordRank(containers, i) == Cardinality({j \in LongTitlesAt(containers) : j <= i})

\* C17: a container yields a record exactly when its trimmed title is longer
\* than 5 characters, whatever its other fields resolved to, and every record
\* returned has a title longer than 5 characters.
C17_TitleIsSoleFilter ==
  \A c \in active :
    (IsScholar(c) /\ Done(c)) =>
      /\ \A k \in 1..Len(result[c].value) : Len(result[c].value[k].title) > 5
      /\ Extracted(c) =>
           /\ Len(result[c].value) = Cardinality(LongTitlesAt(page[c]))
           /\ \A i \in LongTitlesAt(page[c]) :
                result[c].value[RecordRank(page[c], i)].title = TitleOf(page[c][i].title)

C17_Witness ==
  \E c \in active :
    /\ Extracted(c)
    /\ Len(page[c]) = 2
    /\ page[c][1] = Container(Wrapped(" Hello ", "http://x/1"),
                              Element("A Smith - Nature, 2020", ""),
                              Element("In 2018 we measured", ""),
                              Element("Cited by 12", ""))
    /\ page[c][2] = Container(Wrapped("Hello!", "http://x/2"), Missing, Missing, Missing)
    /\ Len(result[c].value) = 1
    /\ result[c].value[1].title = "Hello!"
    /\ result[c].value[1].authors = ""
    /\ result[c].value[1].year = ""
    /\ result[c].value[1].citations = ""

\* The first 4-digit run of each text of the model, "" when it has none.
YearIn(text) ==
  CASE text = "A Smith - Nature, 2020" -> "2020"
    [] text = "Trial 2019 report" -> "2019"
    [] text = "In 2018 we measured" -> "2018"
    [] OTHER -> ""

\* C18: the year of a record is the first 4-digit match of its author/venue
\* text when there is one, otherwise that of its title, otherwise that of its
\* abstract, otherwise empty.
C18_YearPrefersAuthors ==
  \A c \in active :
    Extracted(c) =>
      \A k \in 1..Len(result[c].value) :
        LET r == result[c].value[k] IN
        r.year = IF YearIn(r.authors) # "" THEN YearIn(r.authors)
                 ELSE IF YearIn(r.title) # "" THEN YearIn(r.title)
                 ELSE YearIn(r.abstract)

C18_Witness ==
  \E c \in active :
    /\ Extracted(c)
    /\ Len(result[c].value) = 2
    /\ result[c].value[1].authors = "A Smith - Nature, 2020"
    /\ result[c].value[1].title = "Trial 2019 report"
    /\ result[c].value[1].year = "2020"
    /\ result[c].value[2].authors = "B Jones, Lancet"
    /\ result[c].value[2].title = "Trial 2019 report"
    /\ result[c].value[2].abstract = "In 2018 we measured"
    /\ result[c].value[2].year = "2019"

\* The processes call c launched.
LaunchedBy(c) == {p \in 1..Len(processes) : processes[p].launchedBy = c}

\* Every call has returned.
AllReturned == \A c \in active : Done(c) /\ result[c].kind = "return"

\* C19: in any interleaving of concurrent searchGoogleScholar calls each
\* call launches at most one browser, only the call that launched a browser
\* uses it and closes it, and once all calls have returned no browser is
\* left open.
C19_BrowserOwnedByItsCall ==
  /\ \A c \in active : Cardinality(LaunchedBy(c)) <= 1
  /\ \A p \in 1..Len(processes) :
       /\ processes[p].usedBy \subseteq {processes[p].launchedBy}
       /\ processes[p].closedBy \subseteq {processes[p].launchedBy}
  /\ AllReturned => \A p \in 1..Len(processes) : ~processes[p].open

C19_Witness ==
  /\ AllReturned
  /\ Len(processes) = 2
  /\ processes[1].launchedBy = 2 /\ processes[1].closedBy = {2}
  /\ processes[2].launchedBy = 1 /\ processes[2].closedBy = {1}
  /\ result[1] = Return(<<>>)
  /\ Len(result[2].value) = 1

\* An outcome after which retryFDAApiCall tries again unless it was the last
\* attempt: a failure without status, with status 429 or with a 5xx status.
Retried(o) == ~o.ok /\ (o.status = 0 \/ o.status = 429 \/ o.status >= 500)

\* What retryFDAApiCall completes with after the outcomes os.
OutcomeOf(os) ==
  LET last == os[Len(os)] IN
  IF last.ok THEN Return(OrEmpty(last.results))
  ELSE Raise(Error(last.status, Len(os)))

\* 2^n
RECURSIVE Pow2(_)
Pow2(n) == IF n = 0 THEN 1 ELSE 2 * Pow2(n - 1)

\* C20: in any interleaving of two retry-controlled calls, the number of
\* attempts of each call, its waits and what it completes with are those its
\* own arguments and the outcomes of its own invocations determine.
C20_CallsIndependent ==
  \A c \in active :
    UsesRetry(c) =>
      LET n == Len(outcomes[c])
          m == args[c].maxRetries IN
      /\ Len(requests[c]) <= m
      /\ Len(requests[c]) \in {n, n + 1}
      /\ \A i \in 1..(n - 1) : Retried(outcomes[c][i])
      /\ \A i \in 1..Len(waits[c]) : waits[c][i] = args[c].baseDelay * Pow2(i - 1)
      /\ Len(waits[c]) = IF pc[c] = "await_apiCall" THEN n
                         ELSE IF pc[c] = "await_backoff" THEN n
                         ELSE IF n = 0 THEN 0 ELSE n - 1
      /\ (Done(c) /\ n >= 1) =>
           /\ retryResult[c] = OutcomeOf(outcomes[c])
           /\ Retried(outcomes[c][n]) => n = m
      /\ \A d \in active :
           (/\ Done(c) /\ Done(d)
            /\ fn[d] = fn[c] /\ args[d] = args[c] /\ outcomes[d] = outcomes[c]) =>
             result[d] = result[c]

C20_Witness ==
  /\ \A c \in active : Done(c)
  /\ fn[1] = "retryFDAApiCall" /\ args[1].maxRetries = 3
  /\ fn[2] = "searchDrugs"
  /\ Len(outcomes[1]) = 3 /\ outcomes[1][3].ok
  /\ Len(outcomes[2]) = 2 /\ outcomes[2][2].status = 404
  /\ waits[1] = <<1000, 2000>>
  /\ waits[2] = <<1000>>
  /\ result[1] = Return(<<"rec1">>)
  /\ result[2].kind = "raise"

IsIndicators(c) == fn[c] = "getHealthIndicators"

\* Call c is over and its response carried a list of points.
Answered(c) ==
  /\ IsIndicators(c) /\ Done(c)
  /\ Len(outcomes[c]) = 1
  /\ outcomes[c][1].ok
  /\ outcomes[c][1].body.isArray /\ outcomes[c][1].body.length >= 2
  /\ outcomes[c][1].body.hasData

PointsOf(c) == outcomes[c][1].body.data

\* The positions of the points whose value is not null.
ValuedAt(data) == {i \in 1..Len(data) : data[i].value # <<>>}

PointRank(data, i) == Cardinality({j \in ValuedAt(data) : j <= i})

\* C21: the points getHealthIndicators returns are the points of the response
\* whose value is not null, in the order of the response; a point whose
\* value is null is removed.
C21_NullPointsRemoved ==
  \A c \in active :
    Answered(c) =>
      LET data == PointsOf(c) IN
      /\ result[c].kind = "return"
      /\ Len(result[c].value) = Cardinality(ValuedAt(data))
      /\ \A i \in ValuedAt(data) :
           /\ result[c].value[PointRank(data, i)].year = data[i].date
           /\ <<result[c].value[PointRank(data, i)].value>> = data[i].value

C21_Witness ==
  \E c \in active :
    /\ Answered(c)
    /\ PointsOf(c) = <<[date |-> "2020", value |-> <<>>], [date |-> "2022", value |-> <<0>>]>>
    /\ Len(result[c].value) = 1
    /\ result[c].value[1].year = "2022"
    /\ result[c].value[1].value = 0

\* The code each name of the model stands for, "" when it stands for none.
ExpectedCode(name) ==
  CASE name = "Life Expectancy" -> "SP.DYN.LE00.IN"
    [] name = "infant mortality rate" -> "SP.DYN.IMRT.IN"
    [] name = "birth rate and death rate" -> "SP.DYN.CBRT.IN"
    [] name = "Death rate, then birth rate" -> "SP.DYN.CBRT.IN"
    [] name = "SP.POP.TOTL" -> "SP.POP.TOTL"
    [] name = "SH.XPD.CHEX.GD" -> "SH.XPD.CHEX.GD"
    [] OTHER -> ""

\* C22: the name resolves to the code of the first table entry whose keyword
\* the lower-cased name contains, else to itself when it matches the code
\* pattern as given; a name that resolves to nothing makes the call return
\* [] without a request.
C22_NameResolution ==
  \A c \in active :
    (IsIndicators(c) /\ pc[c] # "start") =>
      IF ExpectedCode(args[c].query) = ""
        THEN /\ Done(c)
             /\ result[c] = Return(<<>>)
             /\ requests[c] = <<>>
        ELSE /\ Len(requests[c]) = 1
             /\ requests[c][1].url = WORLD_BANK_URL
             /\ requests[c][1].search =
                  ((IF args[c].country # "" THEN args[c].country ELSE "all")
                     \o "/indicator/") \o ExpectedCode(args[c].query)

C22_Witness ==
  \E c \in active :
    /\ IsIndicators(c) /\ Done(c)
    /\ args[c].query = "birth rate and death rate"
    /\ args[c].country = ""
    /\ requests[c][1].search = "all/indicator/SP.DYN.CBRT.IN"

\* The place of each step in the session.
StepRank(step) ==
  CASE step = "randomDelay" -> 1
    [] step = "launch" -> 2
    [] step = "newPage" -> 3
    [] step = "setViewport" -> 4
    [] step = "setUserAgent" -> 5
    [] step = "setExtraHTTPHeaders" -> 6
    [] step = "goto" -> 7
    [] step = "waitForSelector" -> 8
    [] step = "$" -> 9
    [] step = "evaluate" -> 10
    [] step = "close" -> 11

\* C23: the steps of a searchGoogleScholar session start in a fixed order,
\* each after the one before it completed: the random delay (at least 1000,
\* less than 3000) first, then the launch, the navigation, the wait for a
\* result container, the extraction pass, and the browser release last.
C23_StepsInOrder ==
  \A c \in active :
    (IsScholar(c) /\ pc[c] # "start") =>
      /\ steps[c][1] = "randomDelay"
      /\ timer[c] >= 1000 /\ timer[c] < 3000
      /\ \A i, j \in 1..Len(steps[c]) :
           i < j => StepRank(steps[c][i]) < StepRank(steps[c][j])
      /\ Started(c, "goto") => Started(c, "launch")
      /\ Started(c, "waitForSelector") => Started(c, "goto")
      /\ Started(c, "evaluate") => Started(c, "waitForSelector")
      /\ Started(c, "close") => Started(c, "launch")
      /\ (Done(c) /\ Launched(c)) => steps[c][Len(steps[c])] = "close"

C23_Witness ==
  \E c \in active :
    /\ IsScholar(c) /\ Done(c)
    /\ timer[c] = 2998
    /\ steps[c] = <<"randomDelay", "launch", "newPage", "setViewport", "setUserAgent",
                    "setExtraHTTPHeaders", "goto", "waitForSelector", "$", "evaluate",
                    "close">>
    /\ Len(result[c].value) = 1

\* The link each heading of the model wraps, "" when it wraps none.
WrappedLink(heading) ==
  CASE heading = Wrapped(" Hello ", "http://x/1") -> "http://x/1"
    [] heading = Wrapped("Hello!", "http://x/2") -> "http://x/2"
    [] heading = Wrapped("Trial 2019 report", "http://x/3") -> "http://x/3"
    [] OTHER -> ""

\* C24: the record of a container whose title heading wraps a link has the
\* reference of that link as its url.
C24_UrlOfWrappedLink ==
  \A c \in active :
    (Extracted(c) /\ Len(result[c].value) = Cardinality(LongTitlesAt(page[c]))) =>
      \A i \in LongTitlesAt(page[c]) :
        WrappedLink(page[c][i].title) # "" =>
          result[c].value[RecordRank(page[c], i)].url = WrappedLink(page[c][i].title)

\* The number of records the i-th result of the page gives rise to.
RecordsOf(r) ==
  IF Len(TitleOf(r.content.title)) > 5 THEN (IF r.nested THEN 2 ELSE 1) ELSE 0

\* The number of records the results before the i-th give rise to.
RECURSIVE RecordsBefore(_, _)
RecordsBefore(results, i) ==
  IF i <= 1 THEN 0
  ELSE RecordsBefore(results, i - 1) + RecordsOf(results[i - 1])

\* C30: the extraction pass emits one record for every matched container
\* that passes the title filter, in document order and without removing
\* duplicates: a result whose '.gs_r' container has a '.gs_ri' container
\* nested in it is emitted twice.
C30_NoDeduplication ==
  \A c \in active :
    Extracted(c) =>
      LET results == document[c] IN
      /\ Len(result[c].value) = RecordsBefore(results, Len(results) + 1)
      /\ \A i \in 1..Len(results) :
           \A k \in 1..RecordsOf(results[i]) :
             result[c].value[RecordsBefore(results, i) + k].title =
               TitleOf(results[i].content.title)

C30_Witness ==
  \E c \in active :
    /\ Extracted(c)
    /\ Len(document[c]) = 2
    /\ document[c][1].nested /\ ~document[c][2].nested
    /\ Len(result[c].value) = 3
    /\ result[c].value[1] = result[c].value[2]
    /\ result[c].value[1].title = "Hello!"
    /\ result[c].value[3].title = "Six Chars"

\* Call c came through a tool handler that has answered.
Responded(c) == response[c] # NoResponse

\* C25: no tool handler lets a failure of its acquisition function escape:
\* when the function raises, the handler answers with a text that carries
\* the message of the error, and it never rejects.
C25_HandlersNeverRaise ==
  \A c \in active :
    /\ response[c].kind \in {"pending", "text"}
    /\ (Responded(c) /\ result[c].kind = "raise") =>
         /\ response[c].kind = "text"
         /\ response[c].outcome = "error"
         /\ response[c].message = result[c].error.message
         /\ response[c].message # ""

C25_Witness ==
  \E c \in active :
    /\ fn[c] = "searchDrugInteractions"
    /\ result[c] = Raise(Error(500, 1))
    /\ response[c].kind = "text"
    /\ response[c].outcome = "error"
    /\ response[c].message = StatusText(500)

\* C26: a failed attempt of retryFDAApiCall is followed by another attempt if
\* and only if its error has no status, status 429 or a status of 500 or
\* more (and attempts are left); any other failure is raised at once.
C26_RetryIffTransient ==
  \A c \in active :
    UsesRetry(c) =>
      \A i \in 1..Len(outcomes[c]) :
        ~outcomes[c][i].ok =>
          LET again == i < Len(outcomes[c]) \/ ~Done(c) IN
          /\ again <=> (Retried(outcomes[c][i]) /\ i < args[c].maxRetries)
          /\ ~Retried(outcomes[c][i]) =>
               /\ Done(c)
               /\ retryResult[c] = Raise(Error(outcomes[c][i].status, i))
               /\ Len(requests[c]) = i

C26_Witness ==
  \E c \in active :
    /\ UsesRetry(c) /\ Done(c)
    /\ Len(outcomes[c]) = 2
    /\ ~outcomes[c][1].ok /\ outcomes[c][1].status = 0
    /\ outcomes[c][2].status = 304
    /\ Len(requests[c]) = 2
    /\ retryResult[c] = Raise(Error(304, 2))

\* C27: when searchDrugs fails and the original error has status 429 or a
\* status of 500 or more, exactly 3 attempts were made; the outage report of
\* the front end is never given after fewer than 3 attempts.
C27_OutageAfterThreeAttempts ==
  \A c \in active :
    fn[c] = "searchDrugs" =>
      /\ (Done(c) /\ result[c].kind = "raise"
            /\ (result[c].error.originalError.status = 429
                  \/ result[c].error.originalError.status >= 500)) =>
           /\ Len(requests[c]) = 3
           /\ Len(outcomes[c]) = 3
           /\ \A i \in 1..3 : ~outcomes[c][i].ok
      /\ response[c].outage =>
           /\ Len(outcomes[c]) = 3
           /\ outcomes[c][3].status >= 500
      /\ (Responded(c) /\ result[c].kind = "raise") =>
           (response[c].outage <=> outcomes[c][Len(outcomes[c])].status >= 500)

C27_Witness ==
  \E c \in active :
    /\ fn[c] = "searchDrugs" /\ Done(c)
    /\ Len(outcomes[c]) = 3
    /\ outcomes[c][1].status = 429
    /\ outcomes[c][3].status = 503
    /\ result[c].kind = "raise"
    /\ response[c].outage

\* C28: the context of every failure searchDrugs raises has retryAttempted
\* true, also when a client-class error ended the call after one attempt.
C28_RetryAttemptedAlwaysTrue ==
  \A c \in active :
    (fn[c] = "searchDrugs" /\ Done(c) /\ result[c].kind = "raise") =>
      result[c].error.context.retryAttempted = TRUE

C28_Witness ==
  \E c \in active :
    /\ fn[c] = "searchDrugs" /\ Done(c)
    /\ Len(requests[c]) = 1
    /\ outcomes[c] = <<[ok |-> FALSE, results |-> <<>>, status |-> 404]>>
    /\ waits[c] = <<>>
    /\ result[c].kind = "raise"
    /\ result[c].error.context.retryAttempted

\* C29: for maxRetries of 1 or more and any outcomes of its invocations,
\* retryFDAApiCall terminates, after at least one and at most maxRetries
\* invocations, and its waits number one less than its invocations: a wait
\* only follows a failed attempt that another attempt follows.
C29_TerminatesWithInvocationsMinusOneWaits ==
  /\ [](\A c \in active :
          (UsesRetry(c) /\ args[c].maxRetries >= 1) =>
            /\ Len(requests[c]) <= args[c].maxRetries
            /\ pc[c] # "start" => Len(requests[c]) >= 1
            /\ Len(waits[c]) <= Len(outcomes[c])
            /\ \A k \in 1..Len(waits[c]) :
                 ~outcomes[c][k].ok /\ Retried(outcomes[c][k]) /\ k < args[c].maxRetries
            /\ Done(c) =>
                 /\ Len(outcomes[c]) = Len(requests[c])
                 /\ Len(waits[c]) = Len(requests[c]) - 1)
  /\ <>(\A c \in active : Done(c))

C29_Witness ==
  \E c \in active :
    /\ fn[c] = "retryFDAApiCall" /\ Done(c)
    /\ args[c].maxRetries = MaxRetriesBound
    /\ Len(requests[c]) = MaxRetriesBound
    /\ Len(waits[c]) = MaxRetriesBound - 1
    /\ \A i \in 1..Len(outcomes[c]) : ~outcomes[c][i].ok

====
